---- MODULE Spec2Model ----
(***************************************************************************)
(* Model of EnhancedAstrologyCalculator (src/horoscope.py): the chart      *)
(* mapper (sign, nakshatra, house, navamsa), the position solvers and the  *)
(* chart orchestration.                                                    *)
(*                                                                         *)
(* Numbers.  The program computes on Python floats.  The model computes on *)
(* a fixed-point grid: an angle is an integer number of micro-degrees      *)
(* (Unit per degree), so that the literal 3.333333 of the source is the    *)
(* integer 3333333 exactly and 360/27 is the exact rational 40/3 (divisions *)
(* by it are carried out by cross-multiplication).  The mapper is applied  *)
(* to points of that grid and its arithmetic on them is exact.  The        *)
(* solvers round as floats do where they subtract the ayanamsa and take    *)
(* the remainder by 360 (see Float below): there the model keeps the       *)
(* binades of the floats, with a shorter significand.                      *)
(***************************************************************************)
EXTENDS Integers, Sequences, FiniteSets, TLC

VARIABLES longitude, ascendant, arg_asc, turns, call, ret,
          jd, lat, lon, planet, guard, precomputed, out,
          kepler, recursion, julian, chart, lahiri, session

\* The arguments and the result of a solver call (SpecSolver).
solverVars == <<jd, lat, lon, planet, guard, precomputed, out>>

\* The Kepler loop of calculate_planet_longitude, pass by pass (SpecKepler).
keplerVars == <<kepler>>

\* The calls of calculate_planet_longitude in progress (SpecRecursion).
recursionVars == <<recursion>>

\* A local date and time, its UTC offset and its Julian Day (SpecJulian).
julianVars == <<julian>>

\* One call of calculate_complete_chart: its arguments, its locals, the
\* methods it has called and its result (SpecChart).
chartVars == <<chart>>
\* Calls of calculate_lahiri_ayanamsa for two Julian Days.
lahiriVars == <<lahiri>>
\* A calculator and the requests made on it one after the other.
sessionVars == <<session>>

\* The variables of the specifications that follow SpecSolver, and their
\* values where those specifications are not running.
laterVars ==
  <<keplerVars, recursionVars, julianVars, chartVars, lahiriVars, sessionVars>>
KeplerIdle ==
  kepler = [M_rad |-> 0, e |-> 0, E |-> 0, delta |-> 0, i |-> 0,
            updates |-> 0, pc |-> "idle"]
RecursionIdle ==
  recursion = [jd |-> 0, planet |-> "none", guard |-> {},
               true_longitudes |-> <<>>, stack |-> <<>>,
               precomputed |-> {}, calls |-> 0, depth |-> 0, returned |-> 0]
JulianIdle ==
  julian = [date_time |-> [year |-> 0, month |-> 0, day |-> 0, hour |-> 0,
                           minute |-> 0],
            tz_offset |-> 0, jd |-> [error |-> "none", jd |-> 0], ticks |-> 0]
ChartIdle == chart = [pc |-> "idle"]
LahiriIdle ==
  lahiri = [jd1 |-> 0, jd2 |-> 0, ayanamsa1 |-> 0, ayanamsa2 |-> 0, moves |-> 0]
SessionIdle == session = [pc |-> "idle"]
LaterIdle ==
  /\ KeplerIdle /\ RecursionIdle /\ JulianIdle /\ ChartIdle /\ LahiriIdle
  /\ SessionIdle

vars == <<longitude, ascendant, arg_asc, turns, call, ret, solverVars,
          laterVars>>

(***************************************************************************)
(* Fixed-point grid and the sampled inputs.                                *)
(***************************************************************************)
Unit == 1000 * 1000          \* micro-degrees per degree
Deg(n) == n * Unit           \* n whole degrees on the grid
Circle == Deg(360)

\* int(x) of Python on the quotient n/d (d > 0): truncation toward zero.
PyInt(n, d) == IF n >= 0 THEN n \div d ELSE -((-n) \div d)

\* Sampled offsets around every critical point (bound of the model).
Spread == 1
\* Whole turns added to a longitude when the sign is asked (bound of the model).
MaxTurns == 2

\* 3.333333, the divisor of src line 1081 and 1103, in micro-degrees.
NavamsaSpan == 3333333

\* ceil(k * 10/3 degrees): the first grid point of the k-th exact 3 deg 20'
\* division of a sign.
ExactBoundary(k) == (k * Deg(10) + 2) \div 3

\* Degrees within a sign that are sampled: every grid point from just below
\* k * 3.333333 to just above k * (30/9), for k = 0..9.
DegreeSamples ==
  UNION { { d \in (k * NavamsaSpan - Spread) .. (ExactBoundary(k) + Spread) :
              d >= 0 /\ d < Deg(30) } : k \in 0..9 }
    \cup { Deg(15) }

Longitudes == { Deg(30) * s + d : s \in 0..11, d \in DegreeSamples }

Ascendants ==
  { Deg(30) * s + d : s \in {0, 4, 8, 11}, d \in {0, 3 * NavamsaSpan, Deg(30) - 1} }

(***************************************************************************)
(* Static tables of the calculator (__init__).                             *)
(***************************************************************************)
\* list(self.zodiac_signs.keys()): the insertion order of the dict.
zodiac_signs ==
  << "Aries", "Taurus", "Gemini", "Cancer", "Leo", "Virgo", "Libra",
     "Scorpio", "Sagittarius", "Capricorn", "Aquarius", "Pisces" >>

\* self.nakshatras, the 27 Tamil names transliterated in list order.
nakshatras ==
  << "Ashwini", "Bharani", "Krittika", "Rohini", "Mrigashira", "Ardra",
     "Punarvasu", "Pushya", "Ashlesha", "Magha", "PurvaPhalguni",
     "UttaraPhalguni", "Hasta", "Chitra", "Swati", "Vishakha", "Anuradha",
     "Jyeshtha", "Mula", "PurvaAshadha", "UttaraAshadha", "Shravana",
     "Dhanishta", "Shatabhisha", "PurvaBhadrapada", "UttaraBhadrapada",
     "Revati" >>

\* Position (0-based) of a name in a table.
IndexOf(table, name) == CHOOSE i \in 0..(Len(table) - 1) : table[i + 1] = name

(***************************************************************************)
(* ChartMapper: pure functions of the calculator.                          *)
(***************************************************************************)
\* Mutant: the sign index rounded to the nearest boundary instead of floored.
get_zodiac_sign_rounded(l) ==
  LET sign_index == (l + Deg(15)) \div Deg(30)
  IN  zodiac_signs[(sign_index % 12) + 1]

\* Mutant: int(longitude / 30), truncation toward zero, instead of floor.
get_zodiac_sign_truncated(l) ==
  LET sign_index == PyInt(l, Deg(30))
  IN  zodiac_signs[(sign_index % 12) + 1]

\* get_zodiac_sign: signs[int(longitude // 30) % 12]
get_zodiac_sign(l) ==
  LET sign_index == l \div Deg(30)
  IN  zodiac_signs[(sign_index % 12) + 1]

\* nakshatra_span = 360 / 27 = SpanNum / SpanDen micro-degrees, in lowest terms
\* (x / span is SpanDen * x / SpanNum, x % span is ((SpanDen * x) % SpanNum) / SpanDen).
SpanNum == Deg(360) \div 9
SpanDen == 27 \div 9

\* Mutant: the pada counted from 0 (the + 1 forgotten).
get_nakshatra_pada_from_zero(l) ==
  LET nakshatra_index == PyInt(SpanDen * l, SpanNum)
      rem             == (SpanDen * l) % SpanNum
      pada            == PyInt(4 * rem, SpanNum)
  IN  << nakshatras[(nakshatra_index % 27) + 1], pada >>

\* get_nakshatra: (nakshatras[int(l / span) % 27], int((l % span) / (span / 4)) + 1)
get_nakshatra(l) ==
  LET nakshatra_index == PyInt(SpanDen * l, SpanNum)
      rem             == (SpanDen * l) % SpanNum       \* SpanDen * (l % span)
      pada            == PyInt(4 * rem, SpanNum) + 1
  IN  << nakshatras[(nakshatra_index % 27) + 1], pada >>

\* Mutant: the arc measured from the planet to the ascendant.
get_house_reversed(planet_longitude, asc) ==
  LET house_longitude == (asc - planet_longitude + Circle) % Circle
      house           == (house_longitude \div Deg(30)) + 1
  IN  IF house <= 12 THEN house ELSE house - 12

\* get_house_from_ascendant
get_house_from_ascendant(planet_longitude, asc) ==
  LET house_longitude == (planet_longitude - asc + Circle) % Circle
      house           == (house_longitude \div Deg(30)) + 1
  IN  IF house <= 12 THEN house ELSE house - 12

\* navamsa_num of calculate_navamsa_position: int((longitude % 30) / 3.333333)
navamsa_num(l) ==
  LET degree_in_sign == l % Deg(30)
  IN  PyInt(degree_in_sign, NavamsaSpan)

\* Mutant: the offsets of the fixed and the dual signs exchanged.
calculate_navamsa_position_swapped(l, ascendant_navamsa) ==
  LET sign_num         == l \div Deg(30)
      navamsa_sign_num ==
        IF sign_num % 3 = 0 THEN (sign_num + navamsa_num(l)) % 12
        ELSE IF sign_num % 3 = 1 THEN (sign_num + 4 + navamsa_num(l)) % 12
        ELSE (sign_num + 8 + navamsa_num(l)) % 12
      navamsa_house    ==
        (((navamsa_sign_num * Deg(30) - ascendant_navamsa + Circle) % Circle)
           \div Deg(30)) + 1
  IN  << navamsa_house, zodiac_signs[navamsa_sign_num + 1] >>

\* Mutant: the count started at the body's own sign in every sign.
calculate_navamsa_position_own_sign(l, ascendant_navamsa) ==
  LET sign_num         == l \div Deg(30)
      navamsa_sign_num == (sign_num + navamsa_num(l)) % 12
      navamsa_house    ==
        (((navamsa_sign_num * Deg(30) - ascendant_navamsa + Circle) % Circle)
           \div Deg(30)) + 1
  IN  << navamsa_house, zodiac_signs[navamsa_sign_num + 1] >>

\* Mutant: the navamsa house counted from the body's rasi sign.
calculate_navamsa_position_rasi_house(l, ascendant_navamsa) ==
  LET sign_num         == l \div Deg(30)
      navamsa_sign_num ==
        IF sign_num % 3 = 0 THEN (sign_num + navamsa_num(l)) % 12
        ELSE IF sign_num % 3 = 1 THEN (sign_num + 8 + navamsa_num(l)) % 12
        ELSE (sign_num + 4 + navamsa_num(l)) % 12
      navamsa_house    ==
        (((sign_num * Deg(30) - ascendant_navamsa + Circle) % Circle)
           \div Deg(30)) + 1
  IN  << navamsa_house, zodiac_signs[navamsa_sign_num + 1] >>

\* calculate_navamsa_position: (navamsa_house, navamsa_sign)
calculate_navamsa_position(l, ascendant_navamsa) ==
  LET sign_num         == l \div Deg(30)
      navamsa_sign_num ==
        IF sign_num % 3 = 0 THEN (sign_num + navamsa_num(l)) % 12
        ELSE IF sign_num % 3 = 1 THEN (sign_num + 8 + navamsa_num(l)) % 12
        ELSE (sign_num + 4 + navamsa_num(l)) % 12
      navamsa_house    ==
        (((navamsa_sign_num * Deg(30) - ascendant_navamsa + Circle) % Circle)
           \div Deg(30)) + 1
  IN  << navamsa_house, zodiac_signs[navamsa_sign_num + 1] >>

\* asc_navamsa_num of calculate_complete_chart: int((ascendant % 30) / 3.333333)
asc_navamsa_num(asc) ==
  LET asc_degree_in_sign == asc % Deg(30)
  IN  PyInt(asc_degree_in_sign, NavamsaSpan)

\* Mutant: degree 0 of the ascendant's rasi sign.
navamsa_ascendant_rasi(asc) ==
  LET asc_sign_num == asc \div Deg(30)
  IN  (asc_sign_num % 12) * Deg(30)

\* navamsa_ascendant of calculate_complete_chart (lines 1101-1110).
navamsa_ascendant(asc) ==
  LET asc_sign_num         == asc \div Deg(30)
      navamsa_asc_sign_num ==
        IF asc_sign_num % 3 = 0 THEN (asc_sign_num + asc_navamsa_num(asc)) % 12
        ELSE IF asc_sign_num % 3 = 1
               THEN (asc_sign_num + 8 + asc_navamsa_num(asc)) % 12
        ELSE (asc_sign_num + 4 + asc_navamsa_num(asc)) % 12
  IN  navamsa_asc_sign_num * Deg(30)

(***************************************************************************)
(* The mapper as a state machine: the inputs are drawn in the initial      *)
(* state, every action is one call and leaves its result in ret.           *)
(*   longitude, ascendant  the inputs                                      *)
(*   turns                 whole turns added to longitude by the last call  *)
(*   arg_asc               the ascendant argument of the last call         *)
(*   call                  the function last called, "none" before any     *)
(*   ret                   what it returned: the name (a sign or a         *)
(*                         nakshatra) and the number (a house, a pada, or  *)
(*                         the navamsa ascendant) of the result            *)
(***************************************************************************)
MapperInit ==
  /\ longitude \in Longitudes
  /\ ascendant \in Ascendants
  /\ arg_asc = ascendant
  /\ turns = 0
  /\ call = "none"
  /\ ret = [name |-> "none", num |-> 0]
  /\ jd = 0 /\ lat = 0 /\ lon = 0
  /\ planet = "none" /\ guard = {} /\ precomputed = {} /\ out = <<>>
  /\ LaterIdle

\* get_zodiac_sign(longitude + 360 * k)
CallGetZodiacSign ==
  \E k \in (-MaxTurns)..MaxTurns :
    /\ call' = "get_zodiac_sign"
    /\ turns' = k
    /\ arg_asc' = ascendant
    /\ ret' = [name |-> get_zodiac_sign(longitude + k * Circle), num |-> 0]
    /\ UNCHANGED <<longitude, ascendant, solverVars, laterVars>>

\* get_nakshatra(longitude)
CallGetNakshatra ==
  /\ call' = "get_nakshatra"
  /\ turns' = 0
  /\ arg_asc' = ascendant
  /\ ret' = [name |-> get_nakshatra(longitude)[1],
             num  |-> get_nakshatra(longitude)[2]]
  /\ UNCHANGED <<longitude, ascendant, solverVars, laterVars>>

\* get_house_from_ascendant(longitude, ascendant)
CallGetHouse ==
  /\ call' = "get_house_from_ascendant"
  /\ turns' = 0
  /\ arg_asc' = ascendant
  /\ ret' = [name |-> "none",
             num  |-> get_house_from_ascendant(longitude, ascendant)]
  /\ UNCHANGED <<longitude, ascendant, solverVars, laterVars>>

\* calculate_navamsa_position(longitude, a): a is the navamsa ascendant the
\* chart derives from the ascendant, or the raw ascendant (any float is
\* accepted by the function).
CallNavamsaPosition ==
  \E a \in {navamsa_ascendant(ascendant), ascendant} :
    /\ call' = "calculate_navamsa_position"
    /\ turns' = 0
    /\ arg_asc' = a
    /\ ret' = [name |-> calculate_navamsa_position(longitude, a)[2],
               num  |-> calculate_navamsa_position(longitude, a)[1]]
    /\ UNCHANGED <<longitude, ascendant, solverVars, laterVars>>

\* lines 1101-1110 of calculate_complete_chart on the ascendant
CallNavamsaAscendant ==
  /\ call' = "navamsa_ascendant"
  /\ turns' = 0
  /\ arg_asc' = ascendant
  /\ ret' = [name |-> "none", num |-> navamsa_ascendant(ascendant)]
  /\ UNCHANGED <<longitude, ascendant, solverVars, laterVars>>

MapperNext ==
  \/ CallGetZodiacSign
  \/ CallGetNakshatra
  \/ CallGetHouse
  \/ CallNavamsaPosition
  \/ CallNavamsaAscendant

SpecMapper == MapperInit /\ [][MapperNext]_vars

(***************************************************************************)
(* Properties of the mapper, checked under SpecMapper.                     *)
(***************************************************************************)
\* The arc index of x on the circle cut into n arcs of width w from 0: the
\* k in 0..n-1 with k*w <= x < (k+1)*w, stated by its bounds.
InArc(x, k, w) == k * w <= x /\ x < (k + 1) * w

C2_SignIsFloorOfThirty ==
  (call = "get_zodiac_sign" /\ turns = 0) =>
    \E k \in 0..11 :
      /\ InArc(longitude, k, Deg(30))
      /\ ret.name = zodiac_signs[k + 1]

\* C2 witness: the boundary 30 degrees itself got Taurus.
C2_Witness ==
  /\ call = "get_zodiac_sign"
  /\ turns = 0
  /\ longitude = Deg(30)
  /\ ret.name = "Taurus"

\* C3: the sign of l + 360k is the sign of l, for k positive, zero or negative.
C3_SignPeriodic ==
  call = "get_zodiac_sign" => ret.name = get_zodiac_sign(longitude)

\* C3 witness: a negative argument (a turn subtracted) got the sign of l.
C3_Witness ==
  /\ call = "get_zodiac_sign"
  /\ turns < 0
  /\ longitude + turns * Circle < 0
  /\ ret.name = "Pisces"

TriadOffset(s) == IF s % 3 = 0 THEN 0 ELSE IF s % 3 = 1 THEN 8 ELSE 4

\* C5: calculate_navamsa_position returns the sign at index
\* (sign_index + offset + segment) mod 12, offset 0, 8, 4 for sign_index mod 3
\* = 0, 1, 2, the segment being the one the function computes (the index of
\* the 3.333333-degree step holding the degree within the sign).
C5_NavamsaSignByTriad ==
  call = "calculate_navamsa_position" =>
    \E s \in 0..11, g \in 0..9 :
      /\ InArc(longitude, s, Deg(30))
      /\ InArc(longitude - s * Deg(30), g, NavamsaSpan)
      /\ ret.name = zodiac_signs[((s + TriadOffset(s) + g) % 12) + 1]

\* C5 witness: 0 degrees Taurus (class 1, segment 0) got Capricorn.
C5_Witness ==
  /\ call = "calculate_navamsa_position"
  /\ longitude = Deg(30)
  /\ ret.name = "Capricorn"

\* C6: every sign is cut into exactly nine equal 3 deg 20' segments: the
\* segment index of calculate_navamsa_position, and the one computed for the
\* ascendant in calculate_complete_chart, is in 0..8 and is
\* floor(degree_in_sign / (30/9)).
C6_NineEqualSegments ==
  /\ call = "calculate_navamsa_position" =>
       /\ navamsa_num(longitude) \in 0..8
       /\ InArc(9 * (longitude % Deg(30)), navamsa_num(longitude), Deg(30))
  /\ call = "navamsa_ascendant" =>
       /\ asc_navamsa_num(ascendant) \in 0..8
       /\ InArc(9 * (ascendant % Deg(30)), asc_navamsa_num(ascendant), Deg(30))

\* C25: the triadic offset table counts navamsas continuously around the
\* zodiac from 0 degrees Aries: for sign_num in 0..11 and a segment
\* navamsa_num in 0..8, the navamsa sign calculate_navamsa_position returns
\* is the one of index (9 * sign_num + navamsa_num) mod 12.
C25_TableCountsContinuously ==
  (call = "calculate_navamsa_position" /\ navamsa_num(longitude) \in 0..8)
    => /\ longitude \div Deg(30) \in 0..11
       /\ IndexOf(zodiac_signs, ret.name)
            = (9 * (longitude \div Deg(30)) + navamsa_num(longitude)) % 12

\* The sixth segment (index 5) of Scorpio (index 7): the 68th navamsa from
\* 0 degrees Aries, in Sagittarius (68 mod 12 = 8).
C25_Witness ==
  /\ call = "calculate_navamsa_position"
  /\ longitude \div Deg(30) = 7
  /\ navamsa_num(longitude) = 5
  /\ ret.name = "Sagittarius"

\* C26: nakshatra padas and navamsa segments are the same 108 divisions of
\* the zodiac: for every longitude in [0, 360), 4 * nakshatra_index +
\* (pada - 1) of get_nakshatra equals 9 * sign_num + navamsa_num of
\* calculate_navamsa_position.
C26_PadasAreNavamsas ==
  call = "get_nakshatra" =>
    4 * IndexOf(nakshatras, ret.name) + (ret.num - 1)
      = 9 * (longitude \div Deg(30)) + navamsa_num(longitude)

\* C7: the navamsa house is the rasi house rule applied to degree 0 of the
\* body's navamsa sign, relative to the navamsa ascendant, and is in 1..12.
C7_NavamsaHouseIsHouseRule ==
  call = "calculate_navamsa_position" =>
    /\ ret.num = get_house_from_ascendant(
                      Deg(30) * IndexOf(zodiac_signs, ret.name), arg_asc)
    /\ ret.num \in 1..12

\* C7 witness: a navamsa ascendant that is not a sign boundary, and a navamsa
\* sign behind it: house 12.
C7_Witness ==
  /\ call = "calculate_navamsa_position"
  /\ arg_asc % Deg(30) # 0
  /\ Deg(30) * IndexOf(zodiac_signs, ret.name) < arg_asc
  /\ ret.num = 12

\* C8: the navamsa ascendant of the chart is degree 0 of the navamsa sign
\* calculate_navamsa_position gives the ascendant, a multiple of 30 in 0..330,
\* and a body at the ascendant's longitude gets navamsa house 1.
C8_NavamsaAscendantIsOwnNavamsaSign ==
  /\ call = "navamsa_ascendant" =>
       /\ ret.num = Deg(30) * IndexOf(zodiac_signs,
                                  calculate_navamsa_position(ascendant, 0)[2])
       /\ \E k \in 0..11 : ret.num = Deg(30) * k
  /\ ( /\ call = "calculate_navamsa_position"
       /\ arg_asc = navamsa_ascendant(ascendant)
       /\ longitude = ascendant ) => ret.num = 1

\* C8 witness: a body on an ascendant in the last micro-degrees of a sign,
\* placed against the derived navamsa ascendant, got navamsa house 1.
C8_Witness ==
  /\ call = "calculate_navamsa_position"
  /\ longitude = ascendant
  /\ longitude % Deg(30) = Deg(30) - 1
  /\ arg_asc = navamsa_ascendant(ascendant)
  /\ arg_asc # ascendant
  /\ ret.num = 1

(***************************************************************************)
(* Arithmetic of the position solvers.                                     *)
(*                                                                         *)
(* Angles are micro-degrees as above.  The centuries T, radians, sines,    *)
(* cosines and eccentricities are integers in units of 1/One.  A Julian    *)
(* Day is an integer number of minutes counted from JD 2400000.5.  The     *)
(* library functions of math (sin, cos, atan2, sqrt, radians, degrees) are *)
(* computed to that resolution.                                            *)
(***************************************************************************)
Half == 10000
One  == Half * Half

Abs(x) == IF x < 0 THEN -x ELSE x
Sgn(x) == IF x < 0 THEN -1 ELSE 1

\* The product of |x| = xh * Half + xl and |y| = yh * Half + yl, over One,
\* with the sign s.
MulSplit(s, xh, xl, yh, yl) ==
  s * (xh * yh + ((xh * yl + xl * yh) + ((xl * yl) \div Half)) \div Half)

\* a * b / One for two values a and b.
MulValues(a, b) ==
  MulSplit(Sgn(a) * Sgn(b), Abs(a) \div Half, Abs(a) % Half,
           Abs(b) \div Half, Abs(b) % Half)

\* x * y / One, truncated toward zero, without leaving 32 bits: both factors
\* are split at Half.  The factors are evaluated once each, as the operands
\* of a float product are.
MulOne(x, y) == CHOOSE r \in { MulValues(a, b) : a \in {x}, b \in {y} } : TRUE

\* pi and 2 pi in units of 1/One.
Pi    == 314159265
TwoPi == 2 * Pi

\* math.radians of an angle in micro-degrees, in units of 1/One:
\* x * (pi/180) * 100.
radians(x) == MulOne(x, 174532925)

\* math.degrees of r (units of 1/One), in micro-degrees: r * (180/pi) / 100.
degrees(r) == MulOne(r, 57295780)

\* One Horner step of the sine series: 1 - x2 * h / k.
Horner(x2, h, k) == One - MulOne(x2, h) \div k

\* x - x^3/3! + ... - x^15/15! for |x| <= pi/2 and x2 = x * x, in Horner form.
SinPoly(x, x2) ==
  MulOne(x,
    Horner(x2, Horner(x2, Horner(x2, Horner(x2, Horner(x2, Horner(x2,
      Horner(x2, One, 210), 156), 110), 72), 42), 20), 6))

SinSeries(x) == SinPoly(x, MulOne(x, x))

\* x in [-pi, pi) folded to [-pi/2, pi/2]: sin(pi - x) = sin x.
Fold(x) ==
  IF 2 * x > Pi THEN Pi - x
  ELSE IF 2 * x < -Pi THEN -Pi - x
  ELSE x

\* math.sin: the argument reduced to [-pi, pi), then folded.
sin(r) == SinSeries(Fold((((r % TwoPi) + Pi) % TwoPi) - Pi))

\* math.cos(r) = sin(r + pi/2)
cos(r) == sin(r + Pi \div 2)

\* n / d in units of 1/One, for 0 <= n <= 2 d: the largest q in [lo, hi) with
\* q * d <= n, by bisection.
RECURSIVE DivBisect(_, _, _, _)
DivBisect(n, d, lo, hi) ==
  IF hi - lo <= 1 THEN lo
  ELSE LET mid == (lo + hi) \div 2
       IN  IF MulOne(mid, d) <= n THEN DivBisect(n, d, mid, hi)
           ELSE DivBisect(n, d, lo, mid)

\* One step of Newton's iteration for x sin t = y cos t, where
\* f = x sin t - y cos t and g = x cos t + y sin t: t - f / g.
NewtonStep(t, f, g) == t - Sgn(f) * DivBisect(Abs(f), g, 0, 2 * One)

\* math.atan2 for y >= 0 and x >= 0 not both 0: the angle a in [0, pi/2] with
\* x sin a = y cos a, by i steps of Newton's iteration from t (a step
\* subtracts the tangent of the error).
RECURSIVE AtanNewton(_, _, _, _)
AtanNewton(y, x, t, i) ==
  IF i = 0 THEN t
  ELSE CHOOSE a \in
         { AtanNewton(y, x, t_new, i - 1) :
             t_new \in { NewtonStep(t, MulOne(x, sin(t)) - MulOne(y, cos(t)),
                                    MulOne(x, cos(t)) + MulOne(y, sin(t))) } } :
         TRUE

\* The angle of (y, x) from the angle t of (|y|, |x|).
Quadrant(t, y, x) ==
  IF x >= 0 THEN (IF y >= 0 THEN t ELSE -t)
  ELSE (IF y >= 0 THEN Pi - t ELSE t - Pi)

\* math.atan2(y, x), in (-pi, pi]
atan2(y, x) ==
  Quadrant(IF y = 0 THEN 0 ELSE AtanNewton(Abs(y), Abs(x), Pi \div 4, 4),
           y, x)

\* math.sqrt(v) for v in [0, 4): the largest s with s * s <= v, by bisection.
RECURSIVE SqrtBisect(_, _, _)
SqrtBisect(v, lo, hi) ==
  IF hi - lo <= 1 THEN lo
  ELSE LET mid == (lo + hi) \div 2
       IN  IF MulOne(mid, mid) <= v THEN SqrtBisect(v, mid, hi)
           ELSE SqrtBisect(v, lo, mid)

sqrt(v) == SqrtBisect(v, 0, 2 * One)

\* JD 2451545.0 (J2000.0) in minutes from JD 2400000.5
J2000 == (2451545 - 2400000) * 1440 - 720

\* T = (jd - 2451545.0) / 36525.0 in units of 1/One: with d the minutes from
\* J2000, d * One / (36525 * 1440) = d * 25000 / 13149.
Centuries(j) ==
  LET d  == j - J2000
      dh == d \div 13149
      dl == d % 13149
  IN  dh * 25000 + (dl * 25000) \div 13149

\* A decimal literal of the source: whole degrees and the digits after the
\* point, as micro-degrees (six digits) or in units of 1/One (eight digits).
D6(whole, micro) == whole * Unit + micro
D8(whole, frac)  == whole * One + frac

(***************************************************************************)
(* Angles of many turns.  A term such as 481267.88123421 * T does not fit  *)
(* the grid as one integer: it is kept as the pair of its whole turns q    *)
(* and its remainder r in [0, 360) degrees, the value being 360 q + r.     *)
(***************************************************************************)
Wide(q, x) == [q |-> q + x \div Circle, r |-> x % Circle]
WAdd(w, x) == Wide(w.q, w.r + x)
WNeg(w)    == Wide(-w.q, -w.r)

\* (whole + frac/One) * T in degrees, for T = t/One, |T| <= 2 and
\* whole = 360 a + b.
LinPos(whole, frac, t) ==
  LET a  == whole \div 360
      b  == whole % 360
      th == t \div Half
      tl == t % Half
      m  == (((a * th) % Half) * Half + a * tl) % One     \* (a t) mod One
  IN  Wide(MulOne(a, t),
           (18 * m) \div 5                                \* 360 (m / One)
             + b * th * 100 + (b * tl) \div 100           \* b t / One
             + MulOne(frac, t) \div 100)                  \* (frac / One) T

Lin(whole, frac, t) ==
  IF t >= 0 THEN LinPos(whole, frac, t) ELSE WNeg(LinPos(whole, frac, -t))

(***************************************************************************)
(* Floats.  A float carries a fixed number of significant bits, so the     *)
(* spacing of the floats doubles from one binade to the next.  The model   *)
(* keeps that shape with a shorter significand: the spacing is one micro-  *)
(* degree below 32 degrees, 2 in [32, 64), 4 in [64, 128), 8 in [128, 256) *)
(* and 16 from 256 degrees up (360 is a multiple of each).  The results of *)
(* the final subtractions and remainders of the solvers are rounded to     *)
(* that spacing, to nearest, ties to even.                                 *)
(***************************************************************************)
Spacing(x) ==
  IF Abs(x) < Deg(32) THEN 1
  ELSE IF Abs(x) < Deg(64) THEN 2
  ELSE IF Abs(x) < Deg(128) THEN 4
  ELSE IF Abs(x) < Deg(256) THEN 8
  ELSE 16

RoundEven(x, g) ==
  LET q == x \div g
      r == x % g
  IN  IF 2 * r < g THEN q * g
      ELSE IF 2 * r > g THEN (q + 1) * g
      ELSE IF q % 2 = 0 THEN q * g ELSE (q + 1) * g

\* The float nearest to x.
Float(x) == RoundEven(x, Spacing(x))

\* The float nearest to a wide value (360 q + r has the spacing of its size).
WFloat(w) ==
  LET g == IF w.q >= 1 \/ w.q <= -2 THEN 16
           ELSE IF w.q = 0 THEN Spacing(w.r)
           ELSE Spacing(w.r - Circle)
  IN  Wide(w.q, RoundEven(w.r, g))

\* Python's x % 360 on floats (float_rem): mod = fmod(x, 360), which is exact
\* and has the sign of x; a negative mod is then replaced by the float sum
\* mod + 360, which is rounded.
PyFloatMod(w) ==
  IF w.q >= 0 \/ w.r = 0 THEN w.r
  ELSE Float((w.r - Circle) + Circle)

\* A literal with seven decimals, cut to the grid.
D7(whole, frac) == whole * Unit + frac \div 10

\* c * x in micro-degrees, for a coefficient c (degrees, units of 1/One) and
\* a factor x (T, T*T, a sine: units of 1/One).
Term(c, x) == MulOne(c, x) \div 100

\* A dict as the set of its <<key, value>> pairs.
Keys(d)      == { p[1] : p \in d }
Put(d, k, v) == { p \in d : p[1] # k } \cup { <<k, v>> }

(***************************************************************************)
(* The position solvers.                                                   *)
(***************************************************************************)
\* self.planetary_elements: L (micro-degrees), dL (degrees per century: the
\* whole part and the fraction in units of 1/One), e (units of 1/One).
planetary_elements ==
  [ Sun     |-> [L |-> D6(280, 466460), dL |-> <<36000, 76983000>>, e |-> 1670863],
    Moon    |-> [L |-> D7(218, 3164477), dL |-> <<481267, 88123421>>, e |-> 5490000],
    Mercury |-> [L |-> D6(252, 250906), dL |-> <<149472, 67463580>>, e |-> 20563175],
    Venus   |-> [L |-> D6(181, 979801), dL |-> <<58517, 81567600>>, e |-> 677323],
    Mars    |-> [L |-> D6(355, 433000), dL |-> <<19140, 29900000>>, e |-> 9341233],
    Jupiter |-> [L |-> D6(34, 351519), dL |-> <<3034, 90566060>>, e |-> 4839266],
    Saturn  |-> [L |-> D6(50, 77444), dL |-> <<1222, 11384880>>, e |-> 5415060] ]

\* Mutant: the linear term subtracted.
calculate_lahiri_ayanamsa_falling(j) ==
  LET T == Centuries(j)
  IN  D6(23, 850000) - Term(1397200, T) + Term(1300, MulOne(T, T))

\* calculate_lahiri_ayanamsa
calculate_lahiri_ayanamsa(j) ==
  LET T == Centuries(j)
  IN  D6(23, 850000) + Term(1397200, T) + Term(1300, MulOne(T, T))

\* calculate_sun_longitude
calculate_sun_longitude(j) ==
  LET T     == Centuries(j)
      T2    == MulOne(T, T)
      L0    == WAdd(Lin(36000, 76983000, T), D6(280, 466460) + Term(30320, T2))
      M     == WAdd(Lin(35999, 5029000, T), D6(357, 529110) - Term(15370, T2))
      M_rad == radians(M.r)
      C     == Term(D8(1, 91460200) - MulOne(481700, T) - MulOne(1400, T2),
                    sin(M_rad))
                 + Term(1999300 - MulOne(10100, T), sin(2 * M_rad))
                 + Term(28900, sin(3 * M_rad))
      true_longitude == WAdd(L0, C)
      omega == WAdd(WNeg(Lin(1934, 13600000, T)), D6(125, 40000))
      apparent_longitude ==
        WAdd(true_longitude, - 5690 - Term(478000, sin(radians(omega.r))))
      ayanamsa == calculate_lahiri_ayanamsa(j)
  IN  PyFloatMod(WFloat(WAdd(apparent_longitude, -ayanamsa)))

\* The periodic terms of calculate_moon_longitude (lines 975-984).
moon_terms(D_rad, M_rad, M_prime_rad, F_rad) ==
    Term(D8(6, 28877400), sin(M_prime_rad))
  + Term(D8(1, 27402700), sin(2 * D_rad - M_prime_rad))
  + Term(65831400, sin(2 * D_rad))
  + Term(21361800, sin(2 * M_prime_rad))
  - Term(18511600, sin(M_rad))
  - Term(11433200, sin(2 * F_rad))
  + Term(5879300, sin(2 * D_rad - 2 * M_prime_rad))
  + Term(5706600, sin(2 * D_rad - M_rad - M_prime_rad))
  + Term(5332200, sin(2 * D_rad + M_prime_rad))
  + Term(4575800, sin(2 * D_rad - M_rad))

\* calculate_moon_longitude
calculate_moon_longitude(j) ==
  LET T  == Centuries(j)
      T2 == MulOne(T, T)
      L_prime == WAdd(Lin(481267, 88123421, T), D7(218, 3164477) - Term(157860, T2))
      D       == WAdd(Lin(445267, 11140340, T), D7(297, 8501921) - Term(188190, T2))
      M       == WAdd(Lin(35999, 5029090, T), D7(357, 5291092) - Term(15360, T2))
      M_prime == WAdd(Lin(477198, 86750550, T), D7(134, 9633964) + Term(874140, T2))
      F       == WAdd(Lin(483202, 1752330, T), D7(93, 2720950) - Term(365390, T2))
      longitude_ ==
        WAdd(L_prime,
             moon_terms(radians(D.r), radians(M.r), radians(M_prime.r),
                        radians(F.r)))
      ayanamsa   == calculate_lahiri_ayanamsa(j)
  IN  PyFloatMod(WFloat(WAdd(longitude_, -ayanamsa)))

\* L of calculate_planet_longitude (line 994)
mean_longitude(p, T) ==
  WAdd(Lin(planetary_elements[p].dL[1], planetary_elements[p].dL[2], T),
       planetary_elements[p].L)

\* M of calculate_planet_longitude (lines 995-1006), before M % 360.
mean_anomaly(p, T) ==
  IF p = "Mercury" THEN WAdd(Lin(149472, 67463580, T), D6(174, 794800))
  ELSE IF p = "Venus" THEN WAdd(Lin(58517, 81567600, T), D6(50, 416100))
  ELSE IF p = "Mars" THEN WAdd(Lin(19140, 29900000, T), D6(19, 387000))
  ELSE IF p = "Jupiter" THEN WAdd(Lin(3034, 90566060, T), D6(20, 20200))
  ELSE IF p = "Saturn" THEN WAdd(Lin(1222, 11384880, T), D6(317, 20700))
  ELSE mean_longitude(p, T)

\* Mutant: a test that never finds the two estimates close.
converged_never(E_new, E) == FALSE

\* The test of line 1013: abs(E_new - E) < 1e-8 (1e-8 is 1 in units of 1/One).
converged(E_new, E) == Abs(E_new - E) < 1

\* The loop of lines 1011-1015 from its i-th pass on: E, and the number n of
\* passes begun, when it ends.  kepler_pass is one pass, E_new computed.
RECURSIVE kepler_loop(_, _, _, _)
kepler_pass(M_rad, e, E, E_new, i) ==
  IF converged(E_new, E)
    THEN [E |-> E, n |-> i + 1]
    ELSE kepler_loop(M_rad, e, E_new, i + 1)

kepler_loop(M_rad, e, E, i) ==
  IF i = 10 THEN [E |-> E, n |-> i]
  ELSE kepler_pass(M_rad, e, E, M_rad + MulOne(e, sin(E)), i)

\* E of lines 1010-1015
eccentric_anomaly(M_rad, e) ==
  kepler_loop(M_rad, e, M_rad + MulOne(e, sin(M_rad)), 0).E

\* nu of line 1016
true_anomaly(E, e) ==
  CHOOSE nu \in
    { 2 * atan2(y, x) : y \in { MulOne(sqrt(One + e), sin(E \div 2)) },
                        x \in { MulOne(sqrt(One - e), cos(E \div 2)) } } : TRUE

\* true_longitude of line 1017, from L, M (after M % 360) and e:
\* (L + degrees(nu) - M) % 360
\* nu of line 1016 from M (after M % 360): E of lines 1010-1015 is computed
\* first, then the two arguments of atan2, each once.
nu_of(M, e) ==
  CHOOSE nu \in { true_anomaly(E, e) : E \in { eccentric_anomaly(radians(M), e) } } :
    TRUE

true_longitude_from(L, M, e) ==
  CHOOSE true_longitude \in
    { PyFloatMod(WFloat(WAdd(L, degrees(nu) - M))) : nu \in { nu_of(M, e) } } :
    TRUE

\* Lines 992-1017 of calculate_planet_longitude.
true_longitude_of(p, j) ==
  true_longitude_from(mean_longitude(p, Centuries(j)),
                      PyFloatMod(WFloat(mean_anomaly(p, Centuries(j)))),
                      planetary_elements[p].e)

\* The other body of the Jupiter/Saturn pair and the weight of the
\* correction (lines 1023 and 1028).
other_body(p) == IF p = "Jupiter" THEN "Saturn" ELSE "Jupiter"
weight(p)     == IF p = "Jupiter" THEN 33000000 ELSE 81000000

\* Mutant: the other body is asked for whatever the dict holds.
needs_other_unguarded(p, pre) == p \in {"Jupiter", "Saturn"}

\* The tests of lines 1020 and 1025: planet == 'Jupiter' and 'Saturn' not in
\* precomputed, or planet == 'Saturn' and 'Jupiter' not in precomputed.
needs_other(p, pre) ==
  p \in {"Jupiter", "Saturn"} /\ other_body(p) \notin Keys(pre)

\* Mutant: the dict that came in empty is the one the nested call filled.
with_perturbation_shared(p, pre, true_longitude, nested) ==
  [ true_longitude |->
      Float(true_longitude
              + Term(weight(p),
                     sin(radians(2 * (true_longitude - nested.longitude))))),
    precomputed |-> nested.precomputed,
    calls       |-> 1 + nested.calls ]

\* Lines 1023-1024 (1028-1029): the corrected true_longitude, given what the
\* nested call returned (its longitude, the shared dict, its calls).  A dict
\* that came in empty was replaced by a new one (line 1019), which the caller
\* never sees.
with_perturbation(p, pre, true_longitude, nested) ==
  [ true_longitude |->
      Float(true_longitude
              + Term(weight(p),
                     sin(radians(2 * (true_longitude - nested.longitude))))),
    precomputed |-> IF pre # {} THEN nested.precomputed ELSE pre,
    calls       |-> 1 + nested.calls ]

\* Lines 1030-1032: the ayanamsa subtracted from true_longitude, % 360.
sidereal(r, ayanamsa) ==
  [ longitude   |-> PyFloatMod(WFloat(Wide(0, r.true_longitude - ayanamsa))),
    precomputed |-> r.precomputed,
    calls       |-> r.calls ]

\* calculate_planet_longitude(planet, jd, precomputed): the value returned,
\* the caller's dict after the call, and the number of calls made (this one
\* included).  guarded_correction is lines 1018-1029.
RECURSIVE calculate_planet_longitude(_, _, _)
\* Mutant: the mark of line 1021 (1026) written into the caller's dict.
guarded_correction_marking(p, j, pre, true_longitude) ==
  IF needs_other(p, pre)
    THEN CHOOSE corrected \in
           { [with_perturbation(p, pre, true_longitude, nested)
                EXCEPT !.precomputed = Put(pre, p, true_longitude)] :
               nested \in { calculate_planet_longitude(
                              other_body(p), j,
                              Put(pre, p, true_longitude)) } } : TRUE
    ELSE [true_longitude |-> true_longitude, precomputed |-> pre, calls |-> 1]

guarded_correction(p, j, pre, true_longitude) ==
  IF needs_other(p, pre)
    THEN CHOOSE corrected \in
           { with_perturbation(p, pre, true_longitude, nested) :
               nested \in { calculate_planet_longitude(
                              other_body(p), j,
                              Put(pre, p, true_longitude)) } } : TRUE
    ELSE [true_longitude |-> true_longitude, precomputed |-> pre, calls |-> 1]

calculate_planet_longitude(p, j, pre) ==
  IF p \notin DOMAIN planetary_elements
    THEN [longitude |-> 0, precomputed |-> pre, calls |-> 1]
    ELSE CHOOSE returned \in
           { sidereal(guarded_correction(p, j, pre, true_longitude),
                      calculate_lahiri_ayanamsa(j)) :
               true_longitude \in { true_longitude_of(p, j) } } : TRUE

\* math.tan(r), kept as the ratio sin(r) / cos(r).
tan(r) == [num |-> sin(r), den |-> cos(r)]

\* gmst of calculate_ascendant (lines 1036-1037)
gmst_of(j) ==
  LET T  == Centuries(j)
      T2 == MulOne(T, T)
      T3 == MulOne(T2, T)
      d  == j - J2000                                  \* (jd - 2451545.0) * 1440
  IN  PyFloatMod(WFloat(
        WAdd(Lin(36000, 77005374, T),                  \* 0.98564736629 * 36525 T
             ((d % 1440) * 250000)                     \* 360 * (jd - 2451545.0)
               + D6(280, 460618) + Term(38793, T2)
               - PyInt(T3, 38710000) \div 100)))

\* obliquity of calculate_ascendant (line 1041)
obliquity_of(j) ==
  LET T  == Centuries(j)
      T2 == MulOne(T, T)
      T3 == MulOne(T2, T)
  IN  D6(23, 439300) - Term(1300420, T) - Term(1640, T2) + Term(5040, T3)

\* Lines 1043-1045: degrees(atan2(y, x)).  The pair (y, x) handed to atan2 is
\* scaled by the denominator of tan(lat_rad), which is not negative for a
\* latitude and leaves atan2 unchanged.
ascendant_of(lst_rad, obliquity_rad, t) ==
  degrees(atan2(MulOne(-cos(lst_rad), t.den),
                MulOne(MulOne(sin(lst_rad), cos(obliquity_rad)), t.den)
                  + MulOne(t.num, sin(obliquity_rad))))

\* Lines 1046-1047: if ascendant < 0: ascendant += 360
add_turn_if_negative(a) == IF a < 0 THEN Float(a + Circle) ELSE a

\* calculate_ascendant
calculate_ascendant(j, la, lo) ==
  LET lst == PyFloatMod(WFloat(Wide(0, gmst_of(j) + lo)))
      ascendant_ ==
        add_turn_if_negative(
          ascendant_of(radians(lst), radians(obliquity_of(j)),
                       tan(radians(la))))
      ayanamsa == calculate_lahiri_ayanamsa(j)
  IN  PyFloatMod(WFloat(Wide(0, ascendant_ - ayanamsa)))

\* Mutant: Ketu a quarter of the circle from Rahu.
calculate_rahu_ketu_square(j) ==
  LET T  == Centuries(j)
      T2 == MulOne(T, T)
      T3 == MulOne(T2, T)
      omega == WAdd(WNeg(Lin(1934, 13628910, T)),
                    D7(125, 445479) + Term(207540, T2)
                      + PyInt(T3, 467441) \div 100)
      rahu_longitude == PyFloatMod(WFloat(omega))
      ketu_longitude == PyFloatMod(WFloat(Wide(0, rahu_longitude + Deg(90))))
      ayanamsa       == calculate_lahiri_ayanamsa(j)
      rahu_sidereal  == PyFloatMod(WFloat(Wide(0, rahu_longitude - ayanamsa)))
      ketu_sidereal  == PyFloatMod(WFloat(Wide(0, ketu_longitude - ayanamsa)))
  IN  << rahu_sidereal, ketu_sidereal >>

\* Mutant: Ketu taken opposite the tropical node without the ayanamsa.
calculate_rahu_ketu_tropical_ketu(j) ==
  LET T  == Centuries(j)
      T2 == MulOne(T, T)
      T3 == MulOne(T2, T)
      omega == WAdd(WNeg(Lin(1934, 13628910, T)),
                    D7(125, 445479) + Term(207540, T2)
                      + PyInt(T3, 467441) \div 100)
      rahu_longitude == PyFloatMod(WFloat(omega))
      ketu_longitude == PyFloatMod(WFloat(Wide(0, rahu_longitude + Deg(180))))
      ayanamsa       == calculate_lahiri_ayanamsa(j)
      rahu_sidereal  == PyFloatMod(WFloat(Wide(0, rahu_longitude - ayanamsa)))
  IN  << rahu_sidereal, ketu_longitude >>

\* calculate_rahu_ketu
calculate_rahu_ketu(j) ==
  LET T  == Centuries(j)
      T2 == MulOne(T, T)
      T3 == MulOne(T2, T)
      omega == WAdd(WNeg(Lin(1934, 13628910, T)),
                    D7(125, 445479) + Term(207540, T2)
                      + PyInt(T3, 467441) \div 100)
      rahu_longitude == PyFloatMod(WFloat(omega))
      ketu_longitude == PyFloatMod(WFloat(Wide(0, rahu_longitude + Deg(180))))
      ayanamsa       == calculate_lahiri_ayanamsa(j)
      rahu_sidereal  == PyFloatMod(WFloat(Wide(0, rahu_longitude - ayanamsa)))
      ketu_sidereal  == PyFloatMod(WFloat(Wide(0, ketu_longitude - ayanamsa)))
  IN  << rahu_sidereal, ketu_sidereal >>

(***************************************************************************)
(* The solvers as a state machine: the Julian Day and the place are drawn  *)
(* in the initial state, every action is one call.                         *)
(*   jd           the Julian Day, in minutes from JD 2400000.5             *)
(*   lat, lon     the place, in micro-degrees                              *)
(*   planet       the planet argument of the last calculate_planet_        *)
(*                longitude call, "none" before any                        *)
(*   guard        the dict handed to that call as precomputed              *)
(*   precomputed  that dict as the caller finds it after the call          *)
(*   out          the longitudes the last call returned                    *)
(***************************************************************************)
\* Julian Days sampled on each side of J2000 (bound of the model).
MaxK == 2
\* Longitudes sampled on each side of the swept one (bound of the model).
Sweep == 2

\* The distance of two sampled Julian Days: 9861 days, 7 hours, 17 minutes.
JDStep == 9861 * 1440 + 437

\* JD 2452683.5625: 2003-02-13 07:00 at UTC+5:30.
BirthJD == (2452683 - 2400000) * 1440 + 90

JDSamples == { J2000 + k * JDStep : k \in (-MaxK)..MaxK } \cup { BirthJD }

\* Three entries of self.cities: latitude, longitude, and the UTC offset in
\* minutes (5.5, 10.0 and 0.0 hours).
cities ==
  [ Chennai   |-> [lat |-> D6(13, 82700),   lon |-> D6(80, 270700),
                   tz_offset |-> 330],
    Sydney    |-> [lat |-> -D6(33, 868800), lon |-> D6(151, 209300),
                   tz_offset |-> 600],
    Reykjavik |-> [lat |-> D6(64, 146600),  lon |-> -D6(21, 942600),
                   tz_offset |-> 0] ]

\* Places on the parallel of Chennai, 8 micro-degrees apart, around the
\* meridian on which the tropical ascendant of BirthJD meets the ayanamsa.
SweptPlaces ==
  { [lat |-> cities.Chennai.lat, lon |-> -D6(50, 932680) + 8 * k] :
      k \in (-Sweep)..Sweep }

\* The two poles, on the meridian of Chennai.
PolarPlaces ==
  { [lat |-> side * Deg(90), lon |-> cities.Chennai.lon] : side \in {-1, 1} }

\* The dicts handed to calculate_planet_longitude: none or empty, or one body
\* marked as in progress.
Guards == { {} } \cup { { <<k, Deg(15)>> } : k \in {"Jupiter", "Saturn"} }

\* The five planets of the chart, and a name that has no elements.
PlanetNames == {"Mercury", "Venus", "Mars", "Jupiter", "Saturn", "Rahu"}

SolverInit ==
  /\ \/ /\ jd \in JDSamples
        /\ \E c \in DOMAIN cities : lat = cities[c].lat /\ lon = cities[c].lon
     \/ /\ jd = BirthJD
        /\ \E pl \in SweptPlaces \cup PolarPlaces :
             lat = pl.lat /\ lon = pl.lon
  /\ planet = "none" /\ guard = {} /\ precomputed = {} /\ out = <<>>
  /\ call = "none"
  /\ ret = [name |-> "none", num |-> 0]
  /\ longitude = 0 /\ ascendant = 0 /\ arg_asc = 0 /\ turns = 0
  /\ LaterIdle

\* What a call leaves alone.
solverFrame == <<jd, lat, lon, ret, longitude, ascendant, arg_asc, turns,
                 laterVars>>

\* calculate_sun_longitude(jd)
CallSunLongitude ==
  /\ call' = "calculate_sun_longitude"
  /\ out' = << calculate_sun_longitude(jd) >>
  /\ planet' = "none" /\ guard' = {} /\ precomputed' = {}
  /\ UNCHANGED solverFrame

\* calculate_moon_longitude(jd)
CallMoonLongitude ==
  /\ call' = "calculate_moon_longitude"
  /\ out' = << calculate_moon_longitude(jd) >>
  /\ planet' = "none" /\ guard' = {} /\ precomputed' = {}
  /\ UNCHANGED solverFrame

\* calculate_planet_longitude(p, jd, g)
CallPlanetLongitude ==
  \E p \in PlanetNames, g \in Guards :
    LET result == calculate_planet_longitude(p, jd, g)
    IN  /\ call' = "calculate_planet_longitude"
        /\ planet' = p
        /\ guard' = g
        /\ precomputed' = result.precomputed
        /\ out' = << result.longitude >>
        /\ UNCHANGED solverFrame

\* calculate_rahu_ketu(jd)
CallRahuKetu ==
  /\ call' = "calculate_rahu_ketu"
  /\ out' = calculate_rahu_ketu(jd)
  /\ planet' = "none" /\ guard' = {} /\ precomputed' = {}
  /\ UNCHANGED solverFrame

\* calculate_ascendant(jd, lat, lon)
CallAscendant ==
  /\ call' = "calculate_ascendant"
  /\ out' = << calculate_ascendant(jd, lat, lon) >>
  /\ planet' = "none" /\ guard' = {} /\ precomputed' = {}
  /\ UNCHANGED solverFrame

SolverNext ==
  \/ CallSunLongitude
  \/ CallMoonLongitude
  \/ CallPlanetLongitude
  \/ CallRahuKetu
  \/ CallAscendant

SpecSolver == SolverInit /\ [][SolverNext]_vars

(***************************************************************************)
(* Properties of the solvers, checked under SpecSolver.                    *)
(***************************************************************************)
\* C9 as amended: for every Julian Day, the two longitudes returned by
\* calculate_rahu_ketu are antipodal up to the rounding of the floats:
\* (ketu - rahu) mod 360 is within three float spacings of 180.
C9_AntipodalWithinRounding ==
  call = "calculate_rahu_ketu" =>
    Abs(((out[2] - out[1]) % Circle) - Deg(180)) <= 3 * Spacing(Circle)

\* C9 witness: Rahu in the second half of the circle, Ketu wrapped to the
\* first, and the two not exactly 180 degrees apart.
C9_Witness ==
  /\ call = "calculate_rahu_ketu"
  /\ out[1] > Deg(180)
  /\ out[2] < Deg(180)
  /\ (out[2] - out[1]) % Circle # Deg(180)

\* C9 as stated: for every Julian Day, (ketu - rahu) mod 360 == 180 exactly.
C9_ExactlyAntipodal ==
  call = "calculate_rahu_ketu" => (out[2] - out[1]) % Circle = Deg(180)

\* C10: every longitude returned by a solver (sun, moon, the planets with or
\* without the Jupiter/Saturn correction, the nodes, the ascendant) is at
\* least 0 and less than 360, for every Julian Day and place.
C10_SolverRange ==
  call \in { "calculate_sun_longitude", "calculate_moon_longitude",
             "calculate_planet_longitude", "calculate_rahu_ketu",
             "calculate_ascendant" } =>
    \A i \in 1..Len(out) : 0 <= out[i] /\ out[i] < Circle

\* C21: at latitude exactly +90 or -90 degrees calculate_ascendant signals a
\* failure: what the call yields is an error outcome, not a numeric
\* ascendant longitude (a number of degrees from 0 to 360).
C21_PoleSignalsFailure ==
  (call = "calculate_ascendant" /\ Abs(lat) = Deg(90))
    => out[1] \notin 0..Circle

(***************************************************************************)
(* SpecKepler: the loop of lines 1010-1015 of calculate_planet_longitude,  *)
(* one pass of the for statement at a time.                                *)
(*                                                                         *)
(*   kepler.M_rad, kepler.e  the mean anomaly (radians) and eccentricity   *)
(*   kepler.E        the variable E                                        *)
(*   kepler.delta    abs(E_new - E) of the last pass                       *)
(*   kepler.i        the passes of the for statement begun so far          *)
(*   kepler.updates  the assignments E = E_new made so far                 *)
(*   kepler.pc       "for" inside the loop, "done" after it                *)
(***************************************************************************)
\* Mean anomalies sampled in [0, 2 pi) (bound of the model).
MaxM == 12

\* M_rad = radians(M % 360) on MaxM equal steps of the circle.
KeplerM == { k * (TwoPi \div MaxM) : k \in 0..(MaxM - 1) }

\* Eccentricities: those of planetary_elements, and the ends 0 and 0.3 of
\* the range.
KeplerE ==
  { planetary_elements[p].e : p \in DOMAIN planetary_elements }
    \cup { 0, 3 * (One \div 10) }

\* The variables of SpecMapper and SpecSolver where they are not running.
EarlierIdle ==
  /\ longitude = 0 /\ ascendant = 0 /\ arg_asc = 0 /\ turns = 0
  /\ call = "none"
  /\ ret = [name |-> "none", num |-> 0]
  /\ jd = 0 /\ lat = 0 /\ lon = 0
  /\ planet = "none" /\ guard = {} /\ precomputed = {} /\ out = <<>>

earlierVars ==
  <<longitude, ascendant, arg_asc, turns, call, ret, solverVars>>

\* Line 1010: E = M_rad + e * math.sin(M_rad)
KeplerInit ==
  /\ \E m \in KeplerM, ec \in KeplerE :
       kepler = [M_rad |-> m, e |-> ec, E |-> m + MulOne(ec, sin(m)),
                 delta |-> 0, i |-> 0, updates |-> 0, pc |-> "for"]
  /\ EarlierIdle /\ RecursionIdle /\ JulianIdle /\ ChartIdle
  /\ LahiriIdle /\ SessionIdle

\* Line 1012: E_new = M_rad + e * math.sin(E)
E_new_of(k) == k.M_rad + MulOne(k.e, sin(k.E))

\* Lines 1013-1014: a pass that finds abs(E_new - E) < 1e-8 and breaks.
KeplerBreak ==
  /\ kepler.pc = "for" /\ kepler.i < 10
  /\ converged(E_new_of(kepler), kepler.E)
  /\ kepler' = [kepler EXCEPT !.delta = Abs(E_new_of(kepler) - kepler.E),
                              !.i = @ + 1, !.pc = "done"]
  /\ UNCHANGED <<earlierVars, recursionVars, julianVars, chartVars,
               lahiriVars,
                   sessionVars>>

\* Line 1015: a pass that does not break and assigns E = E_new.
KeplerUpdate ==
  /\ kepler.pc = "for" /\ kepler.i < 10
  /\ ~ converged(E_new_of(kepler), kepler.E)
  /\ kepler' = [kepler EXCEPT !.delta = Abs(E_new_of(kepler) - kepler.E),
                              !.E = E_new_of(kepler),
                              !.i = @ + 1, !.updates = @ + 1]
  /\ UNCHANGED <<earlierVars, recursionVars, julianVars, chartVars,
               lahiriVars,
                   sessionVars>>

\* Line 1011: range(10) is exhausted.
KeplerExhausted ==
  /\ kepler.pc = "for" /\ kepler.i = 10
  /\ kepler' = [kepler EXCEPT !.pc = "done"]
  /\ UNCHANGED <<earlierVars, recursionVars, julianVars, chartVars,
               lahiriVars,
                   sessionVars>>

KeplerNext == KeplerBreak \/ KeplerUpdate \/ KeplerExhausted

\* The loop runs on its own: a pass that can be made is made.
SpecKepler == KeplerInit /\ [][KeplerNext]_vars /\ WF_vars(KeplerNext)

\* The loop made at most 10 passes and updates, went on only after a
\* difference of at least 1e-8, and ended on a smaller one or on pass 10.
KeplerBounded ==
  /\ kepler.i <= 10 /\ kepler.updates <= 10
  /\ (kepler.pc = "for" /\ kepler.i > 0 => ~ (kepler.delta < 1))
  /\ (kepler.pc = "done" =>
        \/ kepler.delta < 1 /\ kepler.updates = kepler.i - 1
        \/ kepler.i = 10 /\ kepler.updates = 10)

\* C11: the Kepler loop always terminates: for every mean anomaly and every
\* eccentricity in [0, 0.3] it ends, after at most 10 updates of E, and it
\* ends at the first pass whose two successive estimates differ by less
\* than 1e-8.
C11_KeplerLoopTerminates == [] KeplerBounded /\ <> (kepler.pc = "done")

\* C11 witness: a loop that ended before the tenth pass, after it updated E
\* at least twice.
C11_Witness ==
  kepler.pc = "done" /\ kepler.i < 10 /\ kepler.updates >= 2 /\ kepler.e > 0

(***************************************************************************)
(* SpecRecursion: one top-level call of calculate_planet_longitude and the *)
(* calls it makes, as a stack of activations.                              *)
(*                                                                         *)
(*   recursion.jd, .planet, .guard   the arguments of the top-level call   *)
(*   recursion.true_longitudes  true_longitude (line 1017) of each body   *)
(*   recursion.stack        the activations, the innermost last; each has  *)
(*                          its planet, its true_longitude and its place:  *)
(*                            "unknown"  at line 991 (return 0.0)          *)
(*                            "guard"    at line 1018                      *)
(*                            "nested"   inside the call of line 1022/1027 *)
(*                            "return"   at line 1030                      *)
(*   recursion.precomputed  the dict the activations share                 *)
(*   recursion.calls        the calls made so far                          *)
(*   recursion.depth        the deepest stack so far                       *)
(*   recursion.returned     the value the last return handed back          *)
(***************************************************************************)
\* The dicts handed to the top-level call: every set of keys among Mars,
\* Jupiter and Saturn (none, and an empty dict, are the empty one).
RecursionGuards ==
  { { <<k, Deg(15)>> : k \in ks } : ks \in SUBSET {"Mars", "Jupiter", "Saturn"} }

\* Lines 992-1017 for the bodies a call at j can be made for: the
\* true_longitude of each.  It depends on the body and on j only, and is
\* computed here once for all the activations.
true_longitudes(p, j) ==
  [ b \in {p, "Jupiter", "Saturn"} |->
      IF b \in DOMAIN planetary_elements THEN true_longitude_of(b, j) ELSE 0 ]

\* Lines 990-1017: a new activation of calculate_planet_longitude(p, jd, ...).
activation(p, tl) ==
  IF p \notin DOMAIN planetary_elements
    THEN [planet |-> p, true_longitude |-> 0, other |-> 0, pc |-> "unknown"]
    ELSE [planet |-> p, true_longitude |-> tl[p], other |-> 0, pc |-> "guard"]

RecursionInit ==
  /\ \E p \in {"Mars", "Jupiter", "Saturn", "Rahu"}, j \in JDSamples,
        g \in RecursionGuards :
       recursion = [jd |-> j, planet |-> p, guard |-> g,
                    true_longitudes |-> true_longitudes(p, j),
                    stack |-> << activation(p, true_longitudes(p, j)) >>,
                    precomputed |-> g, calls |-> 1, depth |-> 1,
                    returned |-> 0]
  /\ EarlierIdle /\ KeplerIdle /\ JulianIdle /\ ChartIdle
  /\ LahiriIdle /\ SessionIdle

\* The innermost activation.
top == recursion.stack[Len(recursion.stack)]

\* Lines 1020-1022 (1025-1027): the activation marks its own body in the
\* dict and calls the function for the other body.
NestedCall ==
  /\ recursion.stack # <<>> /\ top.pc = "guard"
  /\ needs_other(top.planet, recursion.precomputed)
  /\ recursion' =
       [recursion EXCEPT
          !.precomputed = Put(@, top.planet, top.true_longitude),
          !.stack = Append([@ EXCEPT ![Len(@)].pc = "nested"],
                           activation(other_body(top.planet),
                                      recursion.true_longitudes)),
          !.calls = @ + 1,
          !.depth = IF Len(recursion.stack) + 1 > @
                      THEN Len(recursion.stack) + 1 ELSE @]
  /\ UNCHANGED <<earlierVars, keplerVars, julianVars, chartVars,
               lahiriVars,
                   sessionVars>>

\* Lines 1020 and 1025 both false: on to line 1030.
NoNestedCall ==
  /\ recursion.stack # <<>> /\ top.pc = "guard"
  /\ ~ needs_other(top.planet, recursion.precomputed)
  /\ recursion' =
       [recursion EXCEPT !.stack = [@ EXCEPT ![Len(@)].pc = "return"]]
  /\ UNCHANGED <<earlierVars, keplerVars, julianVars, chartVars,
               lahiriVars,
                   sessionVars>>

\* What an activation returns: 0.0 (line 991) or sidereal_longitude (lines
\* 1030-1032).
return_value(act, j) ==
  IF act.pc = "unknown" THEN 0
  ELSE sidereal([true_longitude |-> act.true_longitude,
                 precomputed |-> {}, calls |-> 0],
                calculate_lahiri_ayanamsa(j)).longitude

\* The caller after the call it made returned v: lines 1022-1024
\* (1027-1029), perturb added to its true_longitude.
resumed(caller, v) ==
  [caller EXCEPT
     !.true_longitude =
        with_perturbation(caller.planet, {}, caller.true_longitude,
                          [longitude |-> v, precomputed |-> {},
                           calls |-> 0]).true_longitude,
     !.other = v,
     !.pc = "return"]

\* A nested call returns to the activation that made it.
ReturnToCaller ==
  /\ Len(recursion.stack) >= 2 /\ top.pc \in {"unknown", "return"}
  /\ \E v \in { return_value(top, recursion.jd) } :
       \E c \in { resumed(recursion.stack[Len(recursion.stack) - 1], v) } :
         recursion' =
           [recursion EXCEPT
              !.returned = v,
              !.stack = [k \in 1..(Len(@) - 1) |->
                           IF k = Len(@) - 1 THEN c ELSE @[k]]]
  /\ UNCHANGED <<earlierVars, keplerVars, julianVars, chartVars,
               lahiriVars,
                   sessionVars>>

\* The top-level call returns.
ReturnToTopLevel ==
  /\ Len(recursion.stack) = 1 /\ top.pc \in {"unknown", "return"}
  /\ \E v \in { return_value(top, recursion.jd) } :
       recursion' = [recursion EXCEPT !.returned = v, !.stack = <<>>]
  /\ UNCHANGED <<earlierVars, keplerVars, julianVars, chartVars,
               lahiriVars,
                   sessionVars>>

RecursionNext ==
  \/ NestedCall
  \/ NoNestedCall
  \/ ReturnToCaller
  \/ ReturnToTopLevel

\* The interpreter runs the call on: a step that can be made is made.
SpecRecursion ==
  RecursionInit /\ [][RecursionNext]_vars /\ WF_vars(RecursionNext)

\* At most two activations, at most two calls (one nested), and an
\* activation that is itself nested is never inside a further call.
DepthAtMostTwo ==
  /\ Len(recursion.stack) <= 2
  /\ recursion.depth <= 2
  /\ recursion.calls <= 2
  /\ (Len(recursion.stack) = 2 => recursion.stack[2].pc # "nested")

\* C12: a top-level call of calculate_planet_longitude for Jupiter or Saturn,
\* with any guard dict, makes at most one nested call (for the other body),
\* the nested call makes none, so the depth is at most 2; and every call
\* returns.
C12_RecursionBounded == [] DepthAtMostTwo /\ <> (recursion.stack = <<>>)

\* C12 witness: a nested call for the other body was made and every call
\* has returned.
C12_Witness ==
  /\ recursion.planet \in {"Jupiter", "Saturn"}
  /\ recursion.depth = 2 /\ recursion.calls = 2
  /\ recursion.stack = <<>>

\* C14: when Jupiter (Saturn) is requested at top level and corrected, the
\* term added is 0.33 sin(2 (J - S)) (0.81 sin(2 (S - J))), J and S being the
\* uncorrected true longitudes of the two bodies: the value of the other body
\* that enters the difference is its true_longitude of line 1017, with no
\* perturbation and no other transformation.
C14_CorrectionFromTrueLongitudes ==
  \A k \in 1..Len(recursion.stack) :
    (recursion.stack[k].pc = "return" /\ recursion.calls = 2 /\ k = 1) =>
      /\ recursion.stack[k].other =
           recursion.true_longitudes[other_body(recursion.stack[k].planet)]
      /\ recursion.stack[k].true_longitude =
           Float(recursion.true_longitudes[recursion.stack[k].planet]
                   + Term(weight(recursion.stack[k].planet),
                          sin(radians(2 *
                            (recursion.true_longitudes[recursion.stack[k].planet]
                               - recursion.true_longitudes[
                                   other_body(recursion.stack[k].planet)])))))

(***************************************************************************)
(* Dates.  A datetime is the record of its year, month, day, hour and      *)
(* minute (strptime with "%Y-%m-%d %H:%M" leaves second and microsecond 0) *)
(* and a UTC offset is a whole number of minutes (5.5 hours is 330).       *)
(* datetime arithmetic goes through the proleptic Gregorian ordinal of the *)
(* day, as in Python's datetime module.                                    *)
(***************************************************************************)
is_leap(year) == year % 4 = 0 /\ (year % 100 # 0 \/ year % 400 = 0)

days_in_month(year, month) ==
  IF month = 2 THEN (IF is_leap(year) THEN 29 ELSE 28)
  ELSE IF month \in {4, 6, 9, 11} THEN 30 ELSE 31

\* The days of the year before the first of the month.
days_before_month(year, month) ==
  <<0, 31, 59, 90, 120, 151, 181, 212, 243, 273, 304, 334>>[month]
    + (IF month > 2 /\ is_leap(year) THEN 1 ELSE 0)

\* The days before January 1st of the year (year 1 has none).
days_before_year(year) ==
  (year - 1) * 365 + (year - 1) \div 4 - (year - 1) \div 100
    + (year - 1) \div 400

\* The ordinal of a day: 1 for 0001-01-01.  date.max is 9999-12-31.
ymd2ord(year, month, day) ==
  days_before_year(year) + days_before_month(year, month) + day
MaxOrdinal == ymd2ord(9999, 12, 31)

\* The year that holds the day of ordinal n.
year_of_ord(n) ==
  LET n0   == n - 1
      n400 == n0 \div 146097
      r400 == n0 % 146097
      n100 == r400 \div 36524
      r100 == r400 % 36524
      n4   == r100 \div 1461
      r4   == r100 % 1461
      n1   == r4 \div 365
      year == n400 * 400 + n100 * 100 + n4 * 4 + n1 + 1
  IN  IF n1 = 4 \/ n100 = 4 THEN year - 1 ELSE year

\* The month of the year that holds its k-th day (k from 1).
month_of_day(year, k) ==
  CHOOSE month \in 1..12 :
    /\ days_before_month(year, month) < k
    /\ k <= days_before_month(year, month) + days_in_month(year, month)

\* The date of ordinal n, with a time of day.
ord2datetime(n, hour, minute) ==
  [ year   |-> year_of_ord(n),
    month  |-> month_of_day(year_of_ord(n), n - days_before_year(year_of_ord(n))),
    day    |-> n - days_before_year(year_of_ord(n))
                 - days_before_month(year_of_ord(n),
                     month_of_day(year_of_ord(n),
                                  n - days_before_year(year_of_ord(n)))),
    hour   |-> hour,
    minute |-> minute ]

\* The minute of the day of a date_time, and what date_time + timedelta of
\* so many minutes is: the date_time, or none past date.min or date.max
\* (OverflowError: date value out of range).
minute_of_day(date_time) == date_time.hour * 60 + date_time.minute

NoDate == [year |-> 0, month |-> 0, day |-> 0, hour |-> 0, minute |-> 0]

shifted(ordinal, minutes) ==
  IF ordinal + minutes \div 1440 < 1 \/ ordinal + minutes \div 1440 > MaxOrdinal
    THEN NoDate
    ELSE ord2datetime(ordinal + minutes \div 1440,
                      (minutes % 1440) \div 60, minutes % 60)

plus_minutes(date_time, minutes) ==
  shifted(ymd2ord(date_time.year, date_time.month, date_time.day),
          minute_of_day(date_time) + minutes)

(***************************************************************************)
(* calculate_accurate_julian_day.  The result is the Julian Day in minutes *)
(* from JD 2400000.5 (as everywhere in the model), or the exception the    *)
(* subtraction of the offset raises.                                       *)
(***************************************************************************)
\* Mutant: the year kept for January and February.
shifted_year_kept(year, month) == year

\* Lines 937-939: if month <= 2: year -= 1; month += 12
shifted_year(year, month)  == IF month <= 2 THEN year - 1 ELSE year

\* Mutant: the month kept for January and February.
shifted_month_kept(year, month) == month

shifted_month(year, month) == IF month <= 2 THEN month + 12 ELSE month

\* Mutant: no Gregorian correction (the Julian calendar).
gregorian_b_none(year) == 0

\* Lines 940-941: a = int(year / 100); b = 2 - a + int(a / 4)
gregorian_b(year) == 2 - PyInt(year, 100) + PyInt(PyInt(year, 100), 4)

\* Line 942 without the - 1524.5, for the year and month of lines 937-939:
\* int(365.25 * (year + 4716)) + int(30.6001 * (month + 1)) + day + b
day_count(year, month, day) ==
  PyInt(1461 * (year + 4716), 4) + PyInt(306001 * (month + 1), 10000)
    + day + gregorian_b(year)

\* Lines 934-944 on utc_time.  jd - 2400000.5 is the day count less
\* 1524.5 + 2400000.5, and line 943 adds the minutes of the day.
jd_of_utc(utc_time) ==
  IF utc_time = NoDate THEN [error |-> "OverflowError", jd |-> 0]
  ELSE [ error |-> "none",
         jd |-> (day_count(shifted_year(utc_time.year, utc_time.month),
                           shifted_month(utc_time.year, utc_time.month),
                           utc_time.day) - 2401525) * 1440
                  + minute_of_day(utc_time) ]

\* Mutant: the offset added to the local time.
calculate_accurate_julian_day_offset_added(date_time, tz_offset) ==
  jd_of_utc(plus_minutes(date_time, tz_offset))

\* calculate_accurate_julian_day(date_time, tz_offset): line 933 is
\* utc_time = date_time - timedelta(hours=tz_offset)
calculate_accurate_julian_day(date_time, tz_offset) ==
  jd_of_utc(plus_minutes(date_time, -tz_offset))

(***************************************************************************)
(* SpecJulian: a local date and time that moves on, and its Julian Day.    *)
(*                                                                         *)
(*   julian.date_time   the local date and time                            *)
(*   julian.tz_offset   the UTC offset, in minutes                         *)
(*   julian.jd          calculate_accurate_julian_day(date_time, tz_offset)*)
(*   julian.ticks       the moves made                                     *)
(***************************************************************************)
\* Moves of the clock from each starting point (bound of the model).
MaxTicks == 3

Date(y, m, d, H, M) ==
  [year |-> y, month |-> m, day |-> d, hour |-> H, minute |-> M]

\* Two minutes before midnight ahead of a month end, a year end, a leap day,
\* a missing leap day and the first of March; noon of J2000; the first day
\* of the calendar.
JulianStarts ==
  { Date(1999, 12, 31, 23, 58), Date(2000, 1, 1, 11, 58),
    Date(2000, 2, 28, 23, 58), Date(2000, 2, 29, 23, 58),
    Date(1900, 2, 28, 23, 58), Date(2100, 2, 28, 23, 58),
    Date(2003, 2, 28, 23, 58), Date(2004, 2, 28, 23, 58),
    Date(2003, 1, 31, 23, 58), Date(2003, 4, 30, 23, 58),
    Date(2003, 2, 13, 7, 0),   Date(1, 1, 1, 0, 0) }

\* UTC, Chennai (5.5 hours), New York (-5 hours).
JulianOffsets == {0, 330, -300}

\* The moves: a minute, an hour, a day.
JulianSteps == {1, 60, 1440}

JulianInit ==
  /\ \E d \in JulianStarts, o \in JulianOffsets :
       julian = [date_time |-> d, tz_offset |-> o,
                 jd |-> calculate_accurate_julian_day(d, o), ticks |-> 0]
  /\ EarlierIdle /\ KeplerIdle /\ RecursionIdle /\ ChartIdle
  /\ LahiriIdle /\ SessionIdle

\* The Julian Day of a later local time at the same offset.
JulianLater ==
  \E step \in JulianSteps :
    /\ julian.ticks < MaxTicks
    /\ plus_minutes(julian.date_time, step) # NoDate
    /\ julian' =
         [julian EXCEPT
            !.date_time = plus_minutes(julian.date_time, step),
            !.jd = calculate_accurate_julian_day(
                     plus_minutes(julian.date_time, step), julian.tz_offset),
            !.ticks = @ + 1]
    /\ UNCHANGED <<earlierVars, keplerVars, recursionVars, chartVars,
                 lahiriVars,
                   sessionVars>>

JulianNext == JulianLater

SpecJulian == JulianInit /\ [][JulianNext]_vars

\* C15: calculate_accurate_julian_day for 2000-01-01 12:00 with UTC offset 0
\* returns exactly 2451545.0 (J2000, here in minutes from JD 2400000.5), with
\* no exception.
C15_NoonOf2000IsJ2000 ==
  (julian.date_time = Date(2000, 1, 1, 12, 0) /\ julian.tz_offset = 0)
    => julian.jd = [error |-> "none", jd |-> J2000]

\* The clock has moved on to noon of 2000-01-01 at offset 0.
C15_Witness ==
  /\ julian.date_time = Date(2000, 1, 1, 12, 0)
  /\ julian.tz_offset = 0
  /\ julian.ticks > 0
  /\ julian.jd.jd = J2000

\* A move of the clock at offset 0 between two instants that have a Julian Day.
utc_move ==
  /\ julian.tz_offset = 0
  /\ julian'.date_time # julian.date_time
  /\ julian.jd.error = "none"
  /\ julian'.jd.error = "none"

\* C16: with UTC offset 0 the Julian Day strictly increases with calendar
\* time: every move of the clock to a later minute, across a month end, a
\* year end, a leap day or the end of February included, gives a larger
\* Julian Day.
C16_JulianDayStrictlyIncreases ==
  [][utc_move => julian'.jd.jd > julian.jd.jd]_vars

\* The clock has passed the leap day of 2000 into March (from month 14 of
\* 1999 to month 3 of 2000 in the terms of lines 937-939) at offset 0.
C16_Witness ==
  /\ julian.tz_offset = 0
  /\ julian.ticks > 0
  /\ julian.date_time.year = 2000
  /\ julian.date_time.month = 3
  /\ julian.date_time.day = 1
  /\ julian.jd.error = "none"

(***************************************************************************)
(* Offsets finer than the clock.  A datetime resolves microseconds, and    *)
(* timedelta(hours=x) rounds x hours to a whole number of them, half to    *)
(* even.  The date_time of the model resolves minutes: an offset finer     *)
(* than that is given in seconds and rounded to whole minutes.             *)
(***************************************************************************)
\* timedelta(hours=x) of line 933, x in seconds: whole minutes.
timedelta(seconds) == RoundEven(seconds, 60) \div 60

\* calculate_accurate_julian_day(date_time, x) for an offset x in seconds.
julian_day_of(date_time, seconds) ==
  calculate_accurate_julian_day(date_time, timedelta(seconds))

\* UTC, 5.5 and 5.75 hours east, 5 and 9.5 hours west, 14 hours east, and
\* a third and two thirds of the resolution of the clock.
FineOffsets == {0, 19800, 20700, -18000, -34200, 50400, 20, 40}

\* The offsets that are a whole number of minutes, the one of the state
\* among them.
whole_offsets ==
  { o \in FineOffsets : o % 60 = 0 } \cup { 60 * julian.tz_offset }

\* d shifted by (o2 - o1) hours: d + timedelta(hours=o2 - o1).
shifted_by(d, o1, o2) == plus_minutes(d, timedelta(o2 - o1))

\* The local time d at offset o1 and d shifted by o2 - o1 at offset o2 have
\* the same Julian Day (or neither has one), when the shifted time exists.
same_instant(d, o1, o2) ==
  shifted_by(d, o1, o2) # NoDate
    => julian_day_of(shifted_by(d, o1, o2), o2) = julian_day_of(d, o1)

\* The same, up to one unit of the resolution of the clock.
near_instant(d, o1, o2) ==
  (/\ shifted_by(d, o1, o2) # NoDate
   /\ julian_day_of(d, o1).error = "none"
   /\ julian_day_of(shifted_by(d, o1, o2), o2).error = "none")
    => Abs(julian_day_of(shifted_by(d, o1, o2), o2).jd
             - julian_day_of(d, o1).jd) <= 1

next_day ==
  /\ julian'.date_time = plus_minutes(julian.date_time, 1440)
  /\ julian.jd.error = "none"
  /\ julian'.jd.error = "none"

\* C30: the Julian Day of the next calendar day at the same time of day is
\* exactly 1 (1440 minutes) greater, in 1900, 2000 and 2100, from 28 or 29
\* February to 1 March in leap and non-leap years and from 31 December to
\* 1 January included.
C30_NextDayIsOneMore ==
  [][next_day => julian'.jd.jd = julian.jd.jd + 1440]_vars

\* The clock has moved from 28 February 1900 to 1 March 1900, 23:58.
C30_Witness ==
  /\ julian.date_time = Date(1900, 3, 1, 23, 58)
  /\ julian.ticks > 0
  /\ julian.jd.error = "none"

(***************************************************************************)
(* SpecAyanamsa: calculate_lahiri_ayanamsa for a Julian Day and for later  *)
(* ones.                                                                   *)
(*                                                                         *)
(*   lahiri.jd1, lahiri.ayanamsa1   a Julian Day and its ayanamsa          *)
(*   lahiri.jd2, lahiri.ayanamsa2   a Julian Day from jd1 on, its ayanamsa *)
(*   lahiri.moves                   the moves of jd2 made                  *)
(***************************************************************************)
\* Moves of jd2 from each starting point (bound of the model).
MaxMoves == 3

\* T = -1: 36525 days before J2000.
CenturyBefore == J2000 - 36525 * 1440

LahiriStarts == JDSamples \cup { CenturyBefore }

\* The moves: a minute, a day, JDStep (27 years).
LahiriSteps == {1, 1440, JDStep}

LahiriInit ==
  /\ \E j \in LahiriStarts :
       lahiri = [jd1 |-> j, jd2 |-> j,
                 ayanamsa1 |-> calculate_lahiri_ayanamsa(j),
                 ayanamsa2 |-> calculate_lahiri_ayanamsa(j), moves |-> 0]
  /\ EarlierIdle /\ KeplerIdle /\ RecursionIdle /\ JulianIdle /\ ChartIdle
  /\ SessionIdle

\* calculate_lahiri_ayanamsa is called for a later Julian Day.
LahiriLater ==
  \E step \in LahiriSteps :
    /\ lahiri.moves < MaxMoves
    /\ lahiri' =
         [lahiri EXCEPT
            !.jd2 = @ + step,
            !.ayanamsa2 = calculate_lahiri_ayanamsa(lahiri.jd2 + step),
            !.moves = @ + 1]
    /\ UNCHANGED <<earlierVars, keplerVars, recursionVars, julianVars,
                   chartVars, sessionVars>>

LahiriNext == LahiriLater

SpecAyanamsa == LahiriInit /\ [][LahiriNext]_vars

\* The rounding of one term of line 948, on the grid of the model.
AyanamsaRounding == 1

digit_chars == <<"0", "1", "2", "3", "4", "5", "6", "7", "8", "9">>
is_digit(c) == \E i \in 1..10 : digit_chars[i] = c
digit(c)    == IndexOf(digit_chars, c)

\* The character at position i, or "" past the end.
char_at(text, i) == IF i >= 1 /\ i <= Len(text) THEN text[i] ELSE ""

\* How many characters from position i on are digits (are spaces).
RECURSIVE digits_at(_, _)
digits_at(text, i) ==
  IF is_digit(char_at(text, i)) THEN 1 + digits_at(text, i + 1) ELSE 0
RECURSIVE spaces_at(_, _)
spaces_at(text, i) ==
  IF char_at(text, i) = " " THEN 1 + spaces_at(text, i + 1) ELSE 0

\* The number written by the n digits from position i on.
RECURSIVE number_at(_, _, _)
number_at(text, i, n) ==
  IF n = 0 THEN 0
  ELSE 10 * number_at(text, i, n - 1) + digit(text[i + n - 1])

\* The length of the day field at position i: 1 or 2 digits, or a space and
\* a digit; 0 if there is none.  Then the number in it.
day_width(text, i) ==
  IF is_digit(char_at(text, i))
    THEN (IF digits_at(text, i) <= 2 THEN digits_at(text, i) ELSE 0)
    ELSE IF char_at(text, i) = " " /\ digits_at(text, i + 1) = 1 THEN 2
    ELSE 0
day_at(text, i) ==
  IF is_digit(char_at(text, i)) THEN number_at(text, i, day_width(text, i))
  ELSE number_at(text, i + 1, 1)

\* The record of a match whose fields are at the positions pm (month), pd
\* (day), pH (hour) and pM (minute).
fields_at(text, pm, pd, pH, pM) ==
  [ year   |-> number_at(text, 1, 4),
    month  |-> number_at(text, pm, digits_at(text, pm)),
    day    |-> day_at(text, pd),
    hour   |-> number_at(text, pH, digits_at(text, pH)),
    minute |-> number_at(text, pM, digits_at(text, pM)) ]

\* The text matches with its fields at those positions: widths, separators
\* and the ranges the expression allows, and nothing after the minute.
matches_at(text, pm, pd, pH, pM) ==
  /\ digits_at(text, 1) = 4 /\ char_at(text, 5) = "-"
  /\ digits_at(text, pm) \in {1, 2}
  /\ number_at(text, pm, digits_at(text, pm)) \in 1..12
  /\ char_at(text, pd - 1) = "-"
  /\ day_width(text, pd) > 0
  /\ day_at(text, pd) \in 1..31
  /\ spaces_at(text, pd + day_width(text, pd)) >= 1
  /\ digits_at(text, pH) \in {1, 2}
  /\ number_at(text, pH, digits_at(text, pH)) \in 0..23
  /\ char_at(text, pM - 1) = ":"
  /\ digits_at(text, pM) \in {1, 2}
  /\ number_at(text, pM, digits_at(text, pM)) \in 0..59
  /\ pM + digits_at(text, pM) - 1 = Len(text)

\* The positions of the fields, each after the one before it.
month_pos == 6
day_pos(text)    == month_pos + digits_at(text, month_pos) + 1
hour_pos(text)   ==
  day_pos(text) + day_width(text, day_pos(text))
    + spaces_at(text, day_pos(text) + day_width(text, day_pos(text)))
minute_pos(text) == hour_pos(text) + digits_at(text, hour_pos(text)) + 1

\* The datetime of the fields, if there is such a day.
checked(fields) ==
  IF fields.year >= 1 /\ fields.day <= days_in_month(fields.year, fields.month)
    THEN [error |-> "none", date_time |-> fields]
    ELSE [error |-> "ValueError", date_time |-> NoDate]

strptime(text) ==
  IF matches_at(text, month_pos, day_pos(text), hour_pos(text),
                minute_pos(text))
    THEN checked(fields_at(text, month_pos, day_pos(text), hour_pos(text),
                           minute_pos(text)))
    ELSE [error |-> "ValueError", date_time |-> NoDate]

(***************************************************************************)
(* SpecChart: one call of calculate_complete_chart, statement by           *)
(* statement.                                                              *)
(*                                                                         *)
(*   chart.birth_date, .birth_time, .birth_place   the arguments           *)
(*   chart.pc          the statement the call is at; "done" once returned  *)
(*   chart.date_obj, .lat, .lon, .tz_offset, .jd, .ascendant,              *)
(*   chart.navamsa_ascendant, .planets_data, .precomputed, .rahu_ketu      *)
(*                     the locals of those names; planets_data is the      *)
(*                     sequence of its <<key, value>> pairs in insertion   *)
(*                     order                                               *)
(*   chart.planet      the place in the loop of line 1132 (of line 1144)   *)
(*   chart.invoked     the methods of the calculator called so far         *)
(*   chart.result      the dict returned                                   *)
(***************************************************************************)
ValidDates == { <<"2", "0", "0", "3", "-", "0", "2", "-", "1", "3">>,
                <<"2", "0", "0", "0", "-", "0", "1", "-", "0", "1">>,
                <<"1", "9", "8", "7", "-", "6", "-", "5">> }
BadDates   == { <<"2", "0", "0", "3", "-", "0", "2", "-", "3", "0">>,
                <<"1", "3", "-", "0", "2", "-", "2", "0", "0", "3">>,
                <<>> }
FirstDay   == <<"0", "0", "0", "1", "-", "0", "1", "-", "0", "1">>
ValidTimes == { <<"0", "7", ":", "0", "0">>, <<"9", ":", "5">> }
Midnight   == <<"0", "0", ":", "0", "0">>
BadTimes   == { <<"2", "4", ":", "0", "0">>, <<"7", " ", "a", "m">> }
Places     == { "Chennai", "Sydney", "Reykjavik", "Atlantis" }

\* The requests: every date, time and place above; the first day of the
\* calendar only at midnight and east of Greenwich, where the UTC instant
\* falls before date.min.
ChartRequests ==
  { r \in [ birth_date  : ValidDates \cup BadDates \cup {FirstDay},
            birth_time  : ValidTimes \cup BadTimes \cup {Midnight},
            birth_place : Places ] :
      /\ r.birth_date = FirstDay =>
           r.birth_time = Midnight /\ r.birth_place # "Reykjavik"
      /\ r.birth_time = Midnight => r.birth_date = FirstDay }

NoResult == [pending |-> TRUE]

ChartInit ==
  /\ \E r \in ChartRequests :
       chart = [ birth_date |-> r.birth_date, birth_time |-> r.birth_time,
                 birth_place |-> r.birth_place, pc |-> "strptime",
                 date_obj |-> NoDate, lat |-> 0, lon |-> 0, tz_offset |-> 0,
                 jd |-> 0, ascendant |-> 0, navamsa_ascendant |-> 0,
                 planets_data |-> <<>>, precomputed |-> {}, planet |-> 0,
                 rahu_ketu |-> <<0, 0>>, invoked |-> <<>>,
                 result |-> NoResult ]
  /\ EarlierIdle /\ KeplerIdle /\ RecursionIdle /\ JulianIdle /\ LahiriIdle
  /\ SessionIdle

chartFrame ==
  <<earlierVars, keplerVars, recursionVars, julianVars, lahiriVars,
                   sessionVars>>

\* The call returns the dict `result`.
returns(result) == [chart EXCEPT !.pc = "done", !.result = result]

\* Mutant: the handler returns what had been computed with the error.
calculation_error_partial ==
  [error |-> "Calculation error", julian_day |-> chart.jd,
   planets |-> chart.planets_data]

\* Line 1169: except Exception as e: return {'error': 'Calculation error: ...'}
calculation_error == [error |-> "Calculation error"]

\* Mutant: the place is looked up before the date and time are parsed.
ChartStrptime_after_lookup ==
  /\ chart.pc = "strptime"
  /\ \E parsed \in { strptime(chart.birth_date \o <<" ">> \o chart.birth_time) } :
       chart' = IF chart.birth_place \notin DOMAIN cities
                  THEN returns([error |-> "City not found in database"])
                ELSE IF parsed.error # "none" THEN returns(calculation_error)
                ELSE [chart EXCEPT !.date_obj = parsed.date_time,
                                   !.pc = "lookup"]
  /\ UNCHANGED chartFrame

\* Line 1095: date_obj = datetime.strptime(f"{birth_date} {birth_time}", ...)
ChartStrptime ==
  /\ chart.pc = "strptime"
  /\ \E parsed \in { strptime(chart.birth_date \o <<" ">> \o chart.birth_time) } :
       chart' = IF parsed.error # "none" THEN returns(calculation_error)
                ELSE [chart EXCEPT !.date_obj = parsed.date_time,
                                   !.pc = "lookup"]
  /\ UNCHANGED chartFrame

\* Mutant: the Julian Day is computed before the place is looked up.
ChartLookup_after_julian_day ==
  /\ chart.pc = "lookup"
  /\ chart' =
       IF chart.birth_place \notin DOMAIN cities
         THEN [returns([error |-> "City not found in database"]) EXCEPT
                 !.invoked = Append(@, "calculate_accurate_julian_day")]
         ELSE [chart EXCEPT !.lat = cities[chart.birth_place].lat,
                            !.lon = cities[chart.birth_place].lon,
                            !.tz_offset = cities[chart.birth_place].tz_offset,
                            !.pc = "julian_day"]
  /\ UNCHANGED chartFrame

\* Lines 1096-1098: the place is looked up in self.cities.
ChartLookup ==
  /\ chart.pc = "lookup"
  /\ chart' =
       IF chart.birth_place \notin DOMAIN cities
         THEN returns([error |-> "City not found in database"])
         ELSE [chart EXCEPT !.lat = cities[chart.birth_place].lat,
                            !.lon = cities[chart.birth_place].lon,
                            !.tz_offset = cities[chart.birth_place].tz_offset,
                            !.pc = "julian_day"]
  /\ UNCHANGED chartFrame

\* Line 1099: jd = self.calculate_accurate_julian_day(date_obj, tz_offset)
ChartJulianDay ==
  /\ chart.pc = "julian_day"
  /\ \E r \in { calculate_accurate_julian_day(chart.date_obj, chart.tz_offset) } :
       chart' =
         IF r.error # "none"
           THEN [returns(calculation_error) EXCEPT
                   !.invoked = Append(@, "calculate_accurate_julian_day")]
           ELSE [chart EXCEPT
                   !.jd = r.jd,
                   !.invoked = Append(@, "calculate_accurate_julian_day"),
                   !.pc = "ascendant"]
  /\ UNCHANGED chartFrame

\* Line 1100: ascendant = self.calculate_ascendant(jd, lat, lon)
ChartAscendant ==
  /\ chart.pc = "ascendant"
  /\ \E a \in { calculate_ascendant(chart.jd, chart.lat, chart.lon) } :
       chart' = [chart EXCEPT !.ascendant = a,
                              !.invoked = Append(@, "calculate_ascendant"),
                              !.pc = "navamsa_ascendant"]
  /\ UNCHANGED chartFrame

\* Lines 1101-1110: navamsa_ascendant
ChartNavamsaAscendant ==
  /\ chart.pc = "navamsa_ascendant"
  /\ chart' = [chart EXCEPT
                 !.navamsa_ascendant = navamsa_ascendant(chart.ascendant),
                 !.pc = "sun"]
  /\ UNCHANGED chartFrame

\* Mutant: a new key goes to the front.
dict_set_first(d, k, v) ==
  IF \E i \in 1..Len(d) : d[i][1] = k
    THEN [i \in 1..Len(d) |-> IF d[i][1] = k THEN <<k, v>> ELSE d[i]]
    ELSE <<<<k, v>>>> \o d

\* d[k] = v on a dict kept as the sequence of its pairs: a new key goes to
\* the end, a key already there keeps its place.
dict_set(d, k, v) ==
  IF \E i \in 1..Len(d) : d[i][1] = k
    THEN [i \in 1..Len(d) |-> IF d[i][1] = k THEN <<k, v>> ELSE d[i]]
    ELSE Append(d, <<k, v>>)

\* The dict stored for a body (lines 1113-1120 and alike), from its longitude
\* and the ascendant and navamsa ascendant of the chart.
placement(planet_long, asc, nav_asc) ==
  [ longitude     |-> planet_long,
    sign          |-> get_zodiac_sign(planet_long),
    house         |-> get_house_from_ascendant(planet_long, asc),
    nakshatra     |-> get_nakshatra(planet_long),
    navamsa_house |-> calculate_navamsa_position(planet_long, nav_asc)[1],
    navamsa_sign  |-> calculate_navamsa_position(planet_long, nav_asc)[2] ]

\* The calls made for one body once its solver has been called.
mapper_calls ==
  << "calculate_navamsa_position", "get_zodiac_sign",
     "get_house_from_ascendant", "get_nakshatra" >>

\* Mutant: the ascendant is resolved again for every body.
placed_resolving_again(name, planet_long, solver) ==
  [chart EXCEPT
     !.planets_data =
        dict_set(@, name,
                 placement(planet_long, chart.ascendant, chart.navamsa_ascendant)),
     !.invoked = @ \o <<"calculate_ascendant">> \o solver \o mapper_calls]

\* planets_data[name] = {...} for the longitude the solver `solver` returned.
placed(name, planet_long, solver) ==
  [chart EXCEPT
     !.planets_data =
        dict_set(@, name,
                 placement(planet_long, chart.ascendant, chart.navamsa_ascendant)),
     !.invoked = @ \o solver \o mapper_calls]

\* Lines 1111-1120: the Sun.
ChartSun ==
  /\ chart.pc = "sun"
  /\ \E sun_long \in { calculate_sun_longitude(chart.jd) } :
       chart' = [placed("Sun", sun_long, <<"calculate_sun_longitude">>)
                   EXCEPT !.pc = "moon"]
  /\ UNCHANGED chartFrame

\* Lines 1121-1130: the Moon; line 1131: precomputed = {}
ChartMoon ==
  /\ chart.pc = "moon"
  /\ \E moon_long \in { calculate_moon_longitude(chart.jd) } :
       chart' = [placed("Moon", moon_long, <<"calculate_moon_longitude">>)
                   EXCEPT !.precomputed = {}, !.planet = 1, !.pc = "planets"]
  /\ UNCHANGED chartFrame

\* The list of line 1132.
chart_planets == <<"Mercury", "Venus", "Mars", "Jupiter", "Saturn">>

\* Lines 1132-1142: one pass of the loop over the five planets; the dict
\* precomputed is handed to the solver and is the caller's afterwards.
ChartPlanet ==
  /\ chart.pc = "planets"
  /\ \E r \in { calculate_planet_longitude(chart_planets[chart.planet],
                                          chart.jd, chart.precomputed) } :
       chart' = [placed(chart_planets[chart.planet], r.longitude,
                        [k \in 1..r.calls |-> "calculate_planet_longitude"])
                   EXCEPT !.precomputed = r.precomputed,
                          !.planet = IF @ = Len(chart_planets) THEN 0 ELSE @ + 1,
                          !.pc = IF chart.planet = Len(chart_planets)
                                   THEN "rahu_ketu" ELSE "planets"]
  /\ UNCHANGED chartFrame

\* Line 1143: rahu_long, ketu_long = self.calculate_rahu_ketu(jd)
ChartRahuKetu ==
  /\ chart.pc = "rahu_ketu"
  /\ \E pair \in { calculate_rahu_ketu(chart.jd) } :
       chart' = [chart EXCEPT !.rahu_ketu = pair,
                              !.invoked = Append(@, "calculate_rahu_ketu"),
                              !.planet = 1, !.pc = "nodes"]
  /\ UNCHANGED chartFrame

\* Lines 1144-1153: one pass of the loop over Rahu and Ketu.
ChartNode ==
  /\ chart.pc = "nodes"
  /\ chart' = [placed(<<"Rahu", "Ketu">>[chart.planet],
                      chart.rahu_ketu[chart.planet], <<>>)
                 EXCEPT !.planet = IF @ = 2 THEN 0 ELSE @ + 1,
                        !.pc = IF chart.planet = 2 THEN "return" ELSE "nodes"]
  /\ UNCHANGED chartFrame

\* Lines 1154-1166: the dict returned.
ChartReturn ==
  /\ chart.pc = "return"
  /\ \E a \in { calculate_lahiri_ayanamsa(chart.jd) } :
       chart' =
         [returns([ ascendant         |-> chart.ascendant,
                    ascendant_sign    |-> get_zodiac_sign(chart.ascendant),
                    navamsa_ascendant |-> chart.navamsa_ascendant,
                    planets           |-> chart.planets_data,
                    coordinates       |-> <<chart.lat, chart.lon>>,
                    timezone          |-> chart.tz_offset,
                    julian_day        |-> chart.jd,
                    birth_date        |-> chart.birth_date,
                    birth_time        |-> chart.birth_time,
                    birth_place       |-> chart.birth_place,
                    ayanamsa          |-> a ])
            EXCEPT !.invoked = @ \o <<"get_zodiac_sign",
                                      "calculate_lahiri_ayanamsa">>]
  /\ UNCHANGED chartFrame

ChartNext ==
  \/ ChartStrptime
  \/ ChartLookup
  \/ ChartJulianDay
  \/ ChartAscendant
  \/ ChartNavamsaAscendant
  \/ ChartSun
  \/ ChartMoon
  \/ ChartPlanet
  \/ ChartRahuKetu
  \/ ChartNode
  \/ ChartReturn

SpecChart == ChartInit /\ [][ChartNext]_vars

\* d[k] and k in d, on a dict kept as the sequence of its pairs.
dict_has(d, k) == \E i \in 1..Len(d) : d[i][1] = k
dict_get(d, k) == d[CHOOSE i \in 1..Len(d) : d[i][1] = k][2]

\* How many times the method `name` has been called so far.
times_invoked(name) ==
  Cardinality({ i \in 1..Len(chart.invoked) : chart.invoked[i] = name })

\* Body p queried alone, with no guard: calculate_planet_longitude(p, jd).
queried_alone(p, j) == calculate_planet_longitude(p, j, {})

\* The longitude the chart holds for p is the one `alone` of the query alone,
\* which made two calls (the body and the other one, for the correction).
same_as_alone(p, alone) ==
  /\ dict_get(chart.planets_data, p).longitude = alone.longitude
  /\ alone.calls = 2

\* C13: within calculate_complete_chart the guard handed to the solver is
\* empty at every pass of the loop, so the longitude stored for Jupiter and
\* the one stored for Saturn each equal the value of the body queried alone
\* with no guard, and both got their perturbation correction: once Saturn is
\* stored the five planets have cost seven solver calls (1 + 1 + 1 + 2 + 2).
C13_GuardScopedPerCall ==
  /\ chart.precomputed = {}
  /\ \A p \in {"Jupiter", "Saturn"} :
       dict_has(chart.planets_data, p) =>
         same_as_alone(p, queried_alone(p, chart.jd))
  /\ dict_has(chart.planets_data, "Saturn") =>
       times_invoked("calculate_planet_longitude") = 7

\* A chart returned in full, holding Jupiter and Saturn, both corrected.
C13_Witness ==
  /\ chart.pc = "done"
  /\ "planets" \in DOMAIN chart.result
  /\ dict_has(chart.result.planets, "Jupiter")
  /\ dict_has(chart.result.planets, "Saturn")
  /\ times_invoked("calculate_planet_longitude") = 7
  /\ dict_get(chart.result.planets, "Jupiter").longitude
       # dict_get(chart.result.planets, "Saturn").longitude

\* list(d): the keys of a dict in insertion order.
keys_in_order(d) == [i \in 1..Len(d) |-> d[i][1]]

\* The nine bodies in the order of lines 1113-1153.
nine_bodies ==
  << "Sun", "Moon", "Mercury", "Venus", "Mars", "Jupiter", "Saturn",
     "Rahu", "Ketu" >>

\* The call has returned a chart, not an error.
successful == chart.pc = "done" /\ "planets" \in DOMAIN chart.result

\* C18: every successful result of calculate_complete_chart maps exactly
\* nine bodies to placements, inserted in the order Sun, Moon, Mercury,
\* Venus, Mars, Jupiter, Saturn, Rahu, Ketu, each exactly once; while the
\* chart is built the bodies stored so far are the first ones of that order.
C18_NineBodiesInOrder ==
  /\ chart.planets_data
       = [i \in 1..Len(chart.planets_data) |->
            <<nine_bodies[i], chart.planets_data[i][2]>>]
  /\ Len(chart.planets_data) <= Len(nine_bodies)
  /\ successful => keys_in_order(chart.result.planets) = nine_bodies

\* A chart returned with its nine bodies.
C18_Witness ==
  /\ successful
  /\ Len(chart.result.planets) = 9
  /\ chart.result.planets[9][1] = "Ketu"
  /\ chart.result.birth_place = "Sydney"

\* The elements of a list.
Range(list) == { list[i] : i \in 1..Len(list) }

\* The keys of a chart returned in full (lines 1154-1166) and of the dict
\* stored for a body (lines 1113-1120).
chart_keys ==
  { "ascendant", "ascendant_sign", "navamsa_ascendant", "planets",
    "coordinates", "timezone", "julian_day", "birth_date", "birth_time",
    "birth_place", "ayanamsa" }
placement_keys ==
  { "longitude", "sign", "house", "nakshatra", "navamsa_house",
    "navamsa_sign" }

\* The dict `result` has an 'error' entry and nothing else.
error_only(result) == DOMAIN result = {"error"}

\* The dict `result` is a chart with every entry, the inputs echoed and the
\* nine bodies, each with every entry of a placement.
fully_populated(result) ==
  /\ DOMAIN result = chart_keys
  /\ result.birth_date = chart.birth_date
  /\ result.birth_time = chart.birth_time
  /\ result.birth_place = chart.birth_place
  /\ result.julian_day = chart.jd
  /\ result.ascendant_sign \in Range(zodiac_signs)
  /\ keys_in_order(result.planets) = nine_bodies
  /\ \A i \in 1..Len(result.planets) :
       /\ DOMAIN result.planets[i][2] = placement_keys
       /\ Len(result.planets[i][2].nakshatra) = 2
       /\ result.planets[i][2].sign \in Range(zodiac_signs)
       /\ result.planets[i][2].navamsa_sign \in Range(zodiac_signs)

\* The statements of the body; each has its action in ChartNext, whose only
\* guard is to be at that statement.
chart_steps ==
  { "strptime", "lookup", "julian_day", "ascendant", "navamsa_ascendant",
    "sun", "moon", "planets", "rahu_ketu", "nodes", "return" }

\* C19: calculate_complete_chart never raises and never returns a partial
\* chart: whatever the three strings, a call that has not returned yet has a
\* next step, and what it returns is either a dict with only an 'error'
\* entry or a chart with ascendant, ascendant sign, navamsa ascendant,
\* Julian Day, ayanamsa, the echoed inputs and all nine placements, each with
\* longitude, sign, house, nakshatra and pada, navamsa house and sign.
C19_ErrorOrFullChart ==
  /\ chart.pc # "done" => (chart.result = NoResult /\ chart.pc \in chart_steps)
  /\ chart.pc = "done" =>
       (error_only(chart.result) \/ fully_populated(chart.result))

\* Both outcomes are met: here the exception of the Julian Day (the first
\* day of the calendar east of Greenwich) has been turned into an error
\* after the place was found.
C19_Witness ==
  /\ chart.pc = "done"
  /\ chart.birth_date = FirstDay
  /\ chart.birth_place \in DOMAIN cities
  /\ chart.result = calculation_error

\* C20: when the date or time is malformed or the place is not in the
\* directory, calculate_complete_chart returns its error before any
\* computation starts: the result is an error and no Julian Day, ascendant
\* or body solver has been invoked.
C20_ErrorBeforeComputation ==
  (/\ chart.pc = "done"
   /\ \/ strptime(chart.birth_date \o <<" ">> \o chart.birth_time).error
           # "none"
      \/ chart.birth_place \notin DOMAIN cities)
    => (error_only(chart.result) /\ chart.invoked = <<>>)

\* A well-formed date and time with a place that is not in the directory.
C20_Witness ==
  /\ chart.pc = "done"
  /\ chart.birth_place = "Atlantis"
  /\ strptime(chart.birth_date \o <<" ">> \o chart.birth_time).error = "none"
  /\ chart.result = [error |-> "City not found in database"]
  /\ chart.invoked = <<>>

\* The longitude of a body of the chart at the Julian Day j, by the solver
\* calculate_complete_chart calls for it.
body_longitude(name, j) ==
  CASE name = "Sun"  -> calculate_sun_longitude(j)
    [] name = "Moon" -> calculate_moon_longitude(j)
    [] name = "Rahu" -> calculate_rahu_ketu(j)[1]
    [] name = "Ketu" -> calculate_rahu_ketu(j)[2]
    [] OTHER         -> calculate_planet_longitude(name, j, {}).longitude

\* The phase a statement belongs to: 0 the checks of the inputs, 1 the Julian
\* Day, ascendant and navamsa ascendant, 2 the nine bodies, 3 the return.
phase(pc) ==
  CASE pc \in {"strptime", "lookup"}                             -> 0
    [] pc \in {"julian_day", "ascendant", "navamsa_ascendant"}   -> 1
    [] pc \in {"sun", "moon", "planets", "rahu_ketu", "nodes"}   -> 2
    [] OTHER                                                     -> 3

\* The entry of planets_data for a body is the placement of the longitude
\* its solver gives at the chart's Julian Day, against the chart's ascendant
\* and navamsa ascendant.
placed_from_phase_one(entry) ==
  /\ entry[2].longitude = body_longitude(entry[1], chart.jd)
  /\ entry[2] = placement(entry[2].longitude, chart.ascendant,
                          chart.navamsa_ascendant)

\* Phase 1 is over when the first body is placed: the Julian Day and the
\* ascendant have been resolved once each, ahead of every other call.
resolved_once ==
  /\ times_invoked("calculate_accurate_julian_day") <= 1
  /\ times_invoked("calculate_ascendant") <= 1
  /\ phase(chart.pc) = 2 =>
       /\ Len(chart.invoked) >= 2
       /\ chart.invoked[1] = "calculate_accurate_julian_day"
       /\ chart.invoked[2] = "calculate_ascendant"
       /\ chart.ascendant = calculate_ascendant(chart.jd, chart.lat, chart.lon)
       /\ chart.navamsa_ascendant = navamsa_ascendant(chart.ascendant)
  /\ phase(chart.pc) < 2 => chart.planets_data = <<>>
  /\ \A i \in 1..Len(chart.planets_data) :
       placed_from_phase_one(chart.planets_data[i])
  /\ (chart.pc = "done" /\ chart.planets_data # <<>>)
       => fully_populated(chart.result)

\* A step never goes back to an earlier phase, and from phase 2 on it leaves
\* the Julian Day, the ascendant and the navamsa ascendant as they are.
no_way_back ==
  /\ phase(chart'.pc) >= phase(chart.pc)
  /\ phase(chart.pc) >= 2 =>
       /\ chart'.jd = chart.jd
       /\ chart'.ascendant = chart.ascendant
       /\ chart'.navamsa_ascendant = chart.navamsa_ascendant

\* C22: calculate_complete_chart runs in two phases with no way back: the
\* Julian Day, the ascendant and the navamsa ascendant are resolved once
\* each before the first body is placed, each of the nine placements is
\* computed from that Julian Day, ascendant and navamsa ascendant, and the
\* call that has placed bodies ends with the fully populated result.
C22_TwoPhases == [] resolved_once /\ [][no_way_back]_vars

\* A chart returned in full for Reykjavik after both phases.
C22_Witness ==
  /\ successful
  /\ chart.birth_place = "Reykjavik"
  /\ Len(chart.planets_data) = 9
  /\ times_invoked("calculate_accurate_julian_day") = 1
  /\ times_invoked("calculate_ascendant") = 1

\* C28: calculate_planet_longitude never adds an entry to an empty guard
\* dict its caller supplies: the dict calculate_complete_chart creates at
\* line 1131 is empty before the first of the five planet calls and after
\* each of them, the calls for Jupiter and Saturn included, so the next
\* body is resolved with no mark of an earlier one in sight.
C28_EmptyGuardStaysEmpty ==
  /\ chart.pc = "planets" => chart.precomputed = {}
  /\ \A i \in 1..Len(chart_planets) :
       dict_has(chart.planets_data, chart_planets[i]) =>
         /\ chart.precomputed = {}
         /\ calculate_planet_longitude(chart_planets[i], chart.jd, {})
              .precomputed = {}

\* The five planet calls are over, Jupiter's and Saturn's with their nested
\* calls, and line 1143 is next.
C28_Witness ==
  /\ chart.pc = "rahu_ketu"
  /\ dict_has(chart.planets_data, "Jupiter")
  /\ dict_has(chart.planets_data, "Saturn")
  /\ times_invoked("calculate_planet_longitude") = 7
  /\ chart.precomputed = {}

\* strptime rejects the date and time of the request.
malformed ==
  strptime(chart.birth_date \o <<" ">> \o chart.birth_time).error # "none"

\* C29: when the date and time are malformed and the place is not in the
\* directory as well, calculate_complete_chart reports the failure of the
\* date and time ('Calculation error'), not 'City not found in database':
\* the string is parsed before the place is looked up, and the place is
\* reported as not found only for a well-formed date and time.
C29_DateErrorComesFirst ==
  chart.pc = "done" =>
    /\ (malformed /\ chart.birth_place \notin DOMAIN cities)
         => chart.result = calculation_error
    /\ chart.result = [error |-> "City not found in database"]
         <=> (~malformed /\ chart.birth_place \notin DOMAIN cities)

\* 30 February at a place that is not in the directory: the date is what
\* the error reports.
C29_Witness ==
  /\ chart.pc = "done"
  /\ chart.birth_place = "Atlantis"
  /\ chart.birth_date = <<"2", "0", "0", "3", "-", "0", "2", "-", "3", "0">>
  /\ malformed
  /\ chart.result = calculation_error

\* What the chart returned holds for a body.
placed_body(name) == dict_get(chart.result.planets, name)

planets ==
  << "Sun", "Moon", "Mars", "Mercury", "Jupiter", "Venus", "Saturn",
     "Rahu", "Ketu" >>

\* The object __init__ builds (lines 21-64).
EnhancedAstrologyCalculator ==
  [ planets            |-> planets,
    zodiac_signs       |-> zodiac_signs,
    nakshatras         |-> nakshatras,
    planetary_elements |-> planetary_elements,
    cities             |-> cities ]

\* Lines 1111-1130: planets_data with the Sun and the Moon.
sun_and_moon(j, asc, nav) ==
  dict_set(dict_set(<<>>, "Sun",
                    placement(calculate_sun_longitude(j), asc, nav)),
           "Moon", placement(calculate_moon_longitude(j), asc, nav))

\* Lines 1132-1142: the for statement from its i-th planet on; r is what the
\* solver returned for that planet, with the caller's dict after the call.
RECURSIVE planets_placed(_, _, _, _, _, _)
planet_placed(i, planets_data, r, j, asc, nav) ==
  planets_placed(i + 1,
                 dict_set(planets_data, chart_planets[i],
                          placement(r.longitude, asc, nav)),
                 r.precomputed, j, asc, nav)
planets_placed(i, planets_data, pre, j, asc, nav) ==
  IF i > Len(chart_planets) THEN planets_data
  ELSE CHOOSE placed_all \in
         { planet_placed(i, planets_data, r, j, asc, nav) :
             r \in { calculate_planet_longitude(chart_planets[i], j, pre) } } :
         TRUE

\* Lines 1143-1153: Rahu and Ketu added.
nodes_placed(planets_data, pair, asc, nav) ==
  dict_set(dict_set(planets_data, "Rahu", placement(pair[1], asc, nav)),
           "Ketu", placement(pair[2], asc, nav))

\* Lines 1100-1166, for the Julian Day j and the entry `place` of cities.
chart_at(request, place, j, asc) ==
  [ ascendant         |-> asc,
    ascendant_sign    |-> get_zodiac_sign(asc),
    navamsa_ascendant |-> navamsa_ascendant(asc),
    planets           |->
      nodes_placed(planets_placed(1, sun_and_moon(j, asc, navamsa_ascendant(asc)),
                                  {}, j, asc, navamsa_ascendant(asc)),
                   calculate_rahu_ketu(j), asc, navamsa_ascendant(asc)),
    coordinates       |-> <<place.lat, place.lon>>,
    timezone          |-> place.tz_offset,
    julian_day        |-> j,
    birth_date        |-> request.birth_date,
    birth_time        |-> request.birth_time,
    birth_place       |-> request.birth_place,
    ayanamsa          |-> calculate_lahiri_ayanamsa(j) ]

\* Lines 1099-1168, given what calculate_accurate_julian_day gave.
chart_from(request, place, julian_day) ==
  IF julian_day.error # "none" THEN calculation_error
  ELSE CHOOSE returned \in
         { chart_at(request, place, julian_day.jd, asc) :
             asc \in { calculate_ascendant(julian_day.jd, place.lat,
                                           place.lon) } } : TRUE

\* Lines 1096-1168, given what strptime gave.
chart_parsed(self, request, parsed) ==
  IF parsed.error # "none" THEN calculation_error
  ELSE IF request.birth_place \notin DOMAIN self.cities
    THEN [error |-> "City not found in database"]
  ELSE chart_from(request, self.cities[request.birth_place],
                  calculate_accurate_julian_day(
                    parsed.date_time,
                    self.cities[request.birth_place].tz_offset))

\* Mutant: a place that was not found is added to self.cities.
attributes_after_caching(self, request) ==
  IF request.birth_place \in DOMAIN self.cities THEN self
  ELSE [self EXCEPT !.cities =
          [c \in DOMAIN self.cities \cup {request.birth_place} |->
             IF c \in DOMAIN self.cities THEN self.cities[c]
             ELSE [lat |-> 0, lon |-> 0, tz_offset |-> 0]]]

\* The attributes after a call: no statement of lines 931-1169 assigns to an
\* attribute or changes the dict, list or tuple one holds.
attributes_after(self, request) == self

\* calculate_complete_chart(birth_date, birth_time, birth_place) on the
\* calculator self: the dict returned, and the calculator afterwards.
calculate_complete_chart(self, request) ==
  [ result |->
      chart_parsed(self, request,
                   strptime(request.birth_date \o <<" ">> \o request.birth_time)),
    self   |-> attributes_after(self, request) ]

\* Requests made on one calculator (bound of the model).
MaxRequests == 3

Request(date, time, place) ==
  [birth_date |-> date, birth_time |-> time, birth_place |-> place]

\* Two requests that succeed and three that fail: at strptime, at the
\* lookup and inside calculate_accurate_julian_day.
SessionRequests ==
  { Request(<<"2", "0", "0", "3", "-", "0", "2", "-", "1", "3">>,
            <<"0", "7", ":", "0", "0">>, "Chennai"),
    Request(<<"1", "9", "8", "7", "-", "6", "-", "5">>,
            <<"9", ":", "5">>, "Sydney"),
    Request(<<"2", "0", "0", "3", "-", "0", "2", "-", "3", "0">>,
            <<"0", "7", ":", "0", "0">>, "Chennai"),
    Request(<<"2", "0", "0", "3", "-", "0", "2", "-", "1", "3">>,
            <<"0", "7", ":", "0", "0">>, "Atlantis"),
    Request(FirstDay, Midnight, "Sydney") }

SessionInit ==
  /\ session = [pc |-> "ready", self |-> EnhancedAstrologyCalculator,
                history |-> <<>>, result |-> NoResult]
  /\ EarlierIdle /\ KeplerIdle /\ RecursionIdle /\ JulianIdle /\ ChartIdle
  /\ LahiriIdle

\* One more call of calculate_complete_chart on the same calculator.
SessionRequest ==
  \E request \in SessionRequests :
    /\ Len(session.history) < MaxRequests
    /\ \E r \in { calculate_complete_chart(session.self, request) } :
         session' = [session EXCEPT !.self = r.self,
                                    !.history = Append(@, request),
                                    !.result = r.result]
    /\ UNCHANGED <<earlierVars, keplerVars, recursionVars, julianVars,
                   chartVars, lahiriVars>>

SessionNext == SessionRequest

SpecSession == SessionInit /\ [][SessionNext]_vars

\* The last request made.
last_request == session.history[Len(session.history)]

\* C23: no state persists between chart requests: calculate_complete_chart
\* leaves every attribute of the calculator (cities, planetary_elements,
\* zodiac_signs, nakshatras, planets) as __init__ made it, and what a
\* request returns is what it returns on a new calculator, whatever
\* requests, successful or failed, ran before it.
C23_NoStatePersists ==
  /\ session.self = EnhancedAstrologyCalculator
  /\ session.history # <<>> =>
       session.result
         = calculate_complete_chart(EnhancedAstrologyCalculator,
                                    last_request).result

\* A chart returned after a request that failed and one that succeeded.
C23_Witness ==
  /\ Len(session.history) >= 3
  /\ "planets" \in DOMAIN session.result
  /\ \E i \in 1..(Len(session.history) - 1) :
       session.history[i].birth_place = "Atlantis"
  /\ \E i \in 1..(Len(session.history) - 1) :
       /\ session.history[i].birth_place = "Sydney"
       /\ session.history[i].birth_date # FirstDay
  /\ last_request.birth_place = "Chennai"

====
